---- MODULE Spec2Model ----
(***************************************************************************)
(* Task orchestration of the e-ink weather display firmware: the event    *)
(* channel, the wake signals, the shared application state, and the       *)
(* orchestrator, scheduler, network manager, display handler, button      *)
(* handler and battery monitor tasks that run on one cooperative          *)
(* executor.  A task that is polled runs until an .await finds nothing    *)
(* ready: a send_event with room in the queue, a wait on a signal that is *)
(* set and an uncontended get_state do not suspend it.                    *)
(***************************************************************************)
EXTENDS Integers, Sequences, FiniteSets, TLC

\* ------------------------------------------------------------------ constants

\* event.rs: const EVENT_QUEUE_SIZE
EVENT_QUEUE_SIZE == 10

\* network.rs: IMAGE_BUFFER_SIZE (600 x 448 pixels, 4 bits per pixel)
IMAGE_BUFFER_SIZE == 134400

\* config_generated.rs (build output): the compiled-in refresh interval
UPDATE_INTERVAL_MINUTES == 30

\* task/network.rs disconnect_wifi: `if timeout_counter > 50 { break }`
DISCONNECT_POLL_LIMIT == 50

\* task/network.rs blink_led: `for _ in 0..5`
BLINK_COUNT == 5

\* task/power.rs measure_battery_percentage: const SAMPLE_COUNT
SAMPLE_COUNT == 9

\* task/power.rs measure_battery_percentage: the divisor 4096.0 of the 12-bit ADC
ADC_FULL_SCALE == 4096

\* ------------------------------------------------------------------ bounds

\* Events still unread when an I/O completion makes a task publish again.
MaxBacklog == 0

\* Key presses (falling edges) the environment produces in one behaviour.
MaxPresses == 2

\* Failed control.join() calls in one update cycle.
MaxJoinFailures == 2

\* Components that call wait_battery_ready at startup.
MaxWaiters == 2

\* Events the button handler and the scheduler each publish when the channel is
\* exercised on its own.
MaxPublish == 2

\* signal() calls on one signal between two of its wakes.
MaxSignals == 2

\* Wakes of one signal counted between two signal() calls on it.
MaxWakes == 2

\* Events of one kind counted while their wake of the network manager is pending.
MaxTriggers == 2

\* ------------------------------------------------------------------ data

\* event.rs: enum Event
Event ==
  { "Key0Pressed", "Key1Pressed", "Key2Pressed", "TimerExpired",
    "NetworkConnected", "NetworkDisconnected", "ImageDownloaded",
    "ImageDownloadFailed", "SchedulerUpdateRequested" }

\* The tasks that call send_event
Producer == {"button_handler", "scheduler", "network_manager"}

\* The Signal statics of the task modules.
SignalName ==
  { "NETWORK_UPDATE_SIGNAL", "LED_BLINK_SIGNAL", "BATTERY_MEASURE_SIGNAL",
    "SCHEDULER_INTERRUPT_SIGNAL", "DISPLAY_UPDATE_SIGNAL", "BATTERY_READY_SIGNAL" }

\* state.rs: AppState::new
AppStateNew(default_update_interval_minutes) ==
  [ next_update_delay_secs |-> default_update_interval_minutes * 60,
    battery_percent        |-> 0,
    wifi_connected         |-> FALSE,
    last_download_success  |-> FALSE ]

\* network.rs download_image: what one HTTP exchange can turn out to be.  A header
\* value is the sequence of its bytes; "~" stands for a byte that is not UTF-8.
Hdr(n, v) == [name |-> n, value |-> v]

Resp(t, st, hs, len) == [transport |-> t, status |-> st, headers |-> hs, body_len |-> len]

Responses ==
  { Resp("send_failed", 0, << >>, 0),
    Resp("ok", 404, << >>, 9),
    Resp("ok", 200, << >>, IMAGE_BUFFER_SIZE),
    Resp("ok", 200, << Hdr("content-type", <<"1">>),
                       Hdr("X-Next-Delay", <<"1","2","0">>) >>, IMAGE_BUFFER_SIZE),
    Resp("ok", 200, << Hdr("x-next-delay", <<"+","1","2","0">>) >>, IMAGE_BUFFER_SIZE),
    Resp("ok", 200, << Hdr("X-NEXT-DELAY", <<"1","2","0","s">>) >>, IMAGE_BUFFER_SIZE),
    Resp("ok", 200, << Hdr("x-next-delay", << >>),
                       Hdr("x-next-delay", <<"1","2","0">>) >>, IMAGE_BUFFER_SIZE),
    Resp("ok", 200, << Hdr("x-next-delay", <<"~","1","2","0">>) >>, IMAGE_BUFFER_SIZE),
    Resp("ok", 200, << Hdr("x-next-delay", <<"1","2","0">>) >>, 100000),
    Resp("body_failed", 200, << Hdr("x-next-delay", <<"1","2","0">>) >>, 0) }

NoResponse == Resp("none", 0, << >>, 0)

\* The components that call wait_battery_ready at startup
Waiter == 1..MaxWaiters

VARIABLES
  queue,            \* event.rs EVENT_CHANNEL: the queued events, oldest first
  sig,              \* the Signal statics: TRUE while a wake is pending
  app,              \* state.rs APP_STATE
  orch_pc,          \* orchestrator: "start" | "recv"
  sched_pc,         \* scheduler: "read" | "wait" | "send"
  delay_secs,       \* scheduler: the duration of the wait in progress
  net_pc,           \* network_manager: where the task is suspended
  blink_i,          \* blink_led: iterations of the blink loop completed
  led,              \* the onboard LED (CYW43 GPIO 0)
  timeout_counter,  \* disconnect_wifi: timeout_counter
  joined,           \* radio: associated with the access point
  link_up,          \* network stack: is_link_up()
  config_up,        \* network stack: is_config_up()
  response,         \* download_image: the HTTP exchange of this cycle
  old_delay,        \* network_manager: old_delay of the success branch
  delay_changed,    \* network_manager: delay_changed
  disp_pc,          \* display_handler: "wait" | "init" | "clear" | "display" | "sleep"
  btn_pc,           \* button_handler: "race" | "debounce" | "release" | "send"
  button,           \* wait_for_button_press: the input whose edge won the race
  keys,             \* the level of the three inputs (active low)
  presses,          \* falling edges produced so far
  bat_pc,           \* battery_monitor: "initial" | "race" | "measure"
  adc_in,           \* the readings the ADC holds for the reads of this measurement
  read_ok,          \* measure_battery_percentage: per read done so far, whether it was Ok
  samples,          \* measure_battery_percentage: samples
  valid_samples,    \* measure_battery_percentage: valid_samples
  median_adc,       \* measure_battery_percentage: median_adc of the last measurement
  waiter_pc,        \* per caller of wait_battery_ready: "waiting" | "released"
  running,          \* executor: the task in the middle of a run, or "none"
  cycle_log,        \* history: what the running update cycle has done so far
  published,        \* history: per producer, the events it has passed to send_event
  received_by,      \* history: per producer, its events receive_event has returned
  pending,          \* per producer, the event of its suspended send_event, or "none"
  sets_since,       \* history: per signal, signal() calls since its last wake
  wakes_since,      \* history: per signal, wakes since its last signal() call
  last_dispatched,  \* history: the event the orchestrator handled last
  join_failures,    \* history: control.join() calls of this cycle that returned Err
  trigger,          \* history: what set NETWORK_UPDATE_SIGNAL last
  bounced,          \* history: the debounced input rose during the 50 ms window
  state_lock,       \* state.rs APP_STATE: the task holding the MutexGuard, or "none"
  triggers_waiting, \* history: update triggers dispatched since the manager last took
                    \* NETWORK_UPDATE_SIGNAL, counted up to MaxTriggers
  inputs,           \* the surroundings of this run: what the user, the timers and the
                    \* radio can produce in it
  key2_in_cycle     \* history: Key2Pressed events dispatched while the update cycle that
                    \* started last was running, counted up to MaxTriggers

sys_vars ==
  << queue, sig, app, orch_pc, sched_pc, delay_secs, net_pc, blink_i, led,
     timeout_counter, joined, link_up, config_up, response, old_delay, delay_changed,
     disp_pc, btn_pc, button, keys, presses, bat_pc, adc_in, read_ok, samples,
     valid_samples, median_adc, waiter_pc, running, cycle_log >>

fabric_vars ==
  << published, received_by, pending, sets_since, wakes_since, last_dispatched >>

trace_vars ==
  << join_failures, trigger, bounced, state_lock, triggers_waiting, inputs,
     key2_in_cycle >>

vars == << sys_vars, fabric_vars, trace_vars >>

orch_vars  == << orch_pc >>
sched_vars == << sched_pc, delay_secs >>
net_vars   == << net_pc, blink_i, led, timeout_counter, joined, response, old_delay,
                 delay_changed, cycle_log >>
radio_vars == << link_up, config_up >>
disp_vars  == << disp_pc >>
btn_vars   == << btn_pc, button >>
pin_vars   == << keys, presses >>
bat_vars   == << bat_pc, adc_in, read_ok, samples, valid_samples, median_adc,
                 waiter_pc >>

\* ------------------------------------------------------------------ primitives

\* embassy Channel::send completes only while the queue has a free slot.
CanSend(q) == Len(q) < EVENT_QUEUE_SIZE

\* A send that writes over the newest queued event, as a one-slot signal would
SentOverwriting(q, e) == IF q = << >> THEN << e >> ELSE [q EXCEPT ![Len(q)] = e]

\* event.rs send_event: the queue after the send has completed
Sent(q, e) == Append(q, e)

\* embassy Channel::receive completes only while an event is queued.
CanReceive(q) == Len(q) > 0

\* event.rs receive_event: the queue after the receive has completed
Received(q) == Tail(q)

\* Signal::signal(()): one slot, set whatever it held
Signaled(sg, s) == [sg EXCEPT ![s] = TRUE]

\* A wait that returns without clearing the slot
TakenNotCleared(sg, s) == sg

\* Signal::wait() returning: the slot is taken
Taken(sg, s) == [sg EXCEPT ![s] = FALSE]

\* The orchestrator needs no I/O to handle an event: a task that publishes finds at
\* most MaxBacklog events still unread.
Drained == Len(queue) <= MaxBacklog

\* ------------------------------------------------------------------ executor

\* The executor polls one task at a time: a task takes a step when no task is in
\* the middle of a run, or when it is itself
Polled(task) == running \in {"none", task}

\* A timer, the radio or an input pin completes only between two runs
Quiet == running = "none"

\* The send_event calls of network_manager
NetSendPc ==
  { "send_connected", "send_downloaded", "send_scheduler_update", "send_failed",
    "send_disconnected" }

\* network_manager is in an update cycle: past the select and the blink branch
\* (task/network.rs 157-257)
CycleRunning == net_pc \notin {"init", "idle", "blink_on", "blink_off"}

\* After a step of a task: the task goes on running if what it awaits next is ready
\* (receive_event with an event queued, send_event with room, a signal that is
\* set, get_state), and is suspended otherwise
OrchRunsOn ==
  running' = IF orch_pc' = "recv" /\ CanReceive(queue') THEN "orchestrator" ELSE "none"

SchedRunsOn ==
  running' = IF \/ sched_pc' = "read"
                \/ sched_pc' = "send" /\ CanSend(queue')
                \/ sched_pc' = "wait" /\ sig'["SCHEDULER_INTERRUPT_SIGNAL"]
             THEN "scheduler" ELSE "none"

NetRunsOn ==
  running' = IF \/ net_pc' \in NetSendPc /\ CanSend(queue')
                \/ net_pc' = "idle" /\ (sig'["NETWORK_UPDATE_SIGNAL"] \/ sig'["LED_BLINK_SIGNAL"])
             THEN "network_manager" ELSE "none"

DispRunsOn ==
  running' = IF disp_pc' = "wait" /\ sig'["DISPLAY_UPDATE_SIGNAL"]
             THEN "display_handler" ELSE "none"

BtnRunsOn ==
  running' = IF btn_pc' = "send" /\ CanSend(queue') THEN "button_handler" ELSE "none"

BatRunsOn ==
  running' = IF bat_pc' = "race" /\ sig'["BATTERY_MEASURE_SIGNAL"]
             THEN "battery_monitor" ELSE "none"

\* The tasks whose wait on a signal has been woken and that have not been polled yet
WokenTasks ==
  { t \in {"scheduler", "network_manager", "display_handler", "battery_monitor"} :
      \/ t = "scheduler" /\ sched_pc = "wait" /\ sig["SCHEDULER_INTERRUPT_SIGNAL"]
      \/ t = "network_manager" /\ net_pc = "idle"
            /\ (sig["NETWORK_UPDATE_SIGNAL"] \/ sig["LED_BLINK_SIGNAL"])
      \/ t = "display_handler" /\ disp_pc = "wait" /\ sig["DISPLAY_UPDATE_SIGNAL"]
      \/ t = "battery_monitor" /\ bat_pc = "race" /\ sig["BATTERY_MEASURE_SIGNAL"] }

\* The executor polls what is ready before it sleeps, and a poll needs no I/O: the
\* timer or the transfer a task waits for completes with at most MaxBacklog events
\* unread or other tasks woken and not yet polled.
Settled(task) == Len(queue) + Cardinality(WokenTasks \ {task}) <= MaxBacklog

\* ------------------------------------------------------------------ download_image

\* Option<u64>
None == [some |-> FALSE, val |-> 0]

Some(n) == [some |-> TRUE, val |-> n]

\* Result<(&mut [u8], Option<u64>), &str> of download_image
Ok(d) == [ok |-> TRUE, next_delay |-> d]

Err == [ok |-> FALSE, next_delay |-> None]

\* str::eq_ignore_ascii_case: ASCII letters compare without case
AsciiLower(n) ==
  CASE n = "X-Next-Delay" -> "x-next-delay"
    [] n = "X-NEXT-DELAY" -> "x-next-delay"
    [] n = "Content-Type" -> "content-type"
    [] OTHER              -> n

EqIgnoreAsciiCase(a, b) == AsciiLower(a) = AsciiLower(b)

\* core::str::from_utf8 succeeds when every byte is valid
FromUtf8Ok(bytes) == \A i \in 1..Len(bytes) : bytes[i] # "~"

IsDigit(c) == c \in {"0", "1", "2", "3", "4", "5", "6", "7", "8", "9"}

DigitValue(c) ==
  CASE c = "0" -> 0 [] c = "1" -> 1 [] c = "2" -> 2 [] c = "3" -> 3 [] c = "4" -> 4
    [] c = "5" -> 5 [] c = "6" -> 6 [] c = "7" -> 7 [] c = "8" -> 8 [] c = "9" -> 9

RECURSIVE DigitsValue(_, _)
DigitsValue(ds, acc) ==
  IF ds = << >> THEN acc ELSE DigitsValue(Tail(ds), acc * 10 + DigitValue(Head(ds)))

\* str::parse::<u64>: an optional "+" and then one or more decimal digits
ParseU64(str) ==
  LET ds == IF str # << >> /\ Head(str) = "+" THEN Tail(str) ELSE str
  IN IF ds # << >> /\ \A i \in 1..Len(ds) : IsDigit(ds[i])
     THEN Some(DigitsValue(ds, 0))
     ELSE None

\* network.rs 56-70: the first header named x-next-delay decides, whatever follows it
RECURSIVE ParseNextDelay(_)
ParseNextDelay(headers) ==
  IF headers = << >> THEN None
  ELSE IF EqIgnoreAsciiCase(Head(headers).name, "x-next-delay")
       THEN IF FromUtf8Ok(Head(headers).value)
            THEN ParseU64(Head(headers).value)
            ELSE None
       ELSE ParseNextDelay(Tail(headers))

\* network.rs download_image, given what the HTTP exchange turned out to be
download_image(r) ==
  IF r.transport \in {"request_failed", "send_failed"} THEN Err
  ELSE IF r.status # 200 THEN Err
  ELSE IF r.transport = "body_failed" THEN Err
  ELSE Ok(ParseNextDelay(r.headers))

\* ------------------------------------------------------------------ orchestrator

\* A match whose Key2Pressed arm starts an update instead of the blink
ReactionKey2Update(e) ==
  CASE e \in {"Key0Pressed", "Key2Pressed", "TimerExpired"} -> {"NETWORK_UPDATE_SIGNAL"}
    [] e = "Key1Pressed"              -> {"BATTERY_MEASURE_SIGNAL"}
    [] e = "ImageDownloaded"          -> {"DISPLAY_UPDATE_SIGNAL"}
    [] e = "SchedulerUpdateRequested" -> {"SCHEDULER_INTERRUPT_SIGNAL"}
    [] OTHER                          -> {}

\* task/orchestrator.rs 36-74: the signal the match arm of an event sets, if any
Reaction(e) ==
  CASE e = "Key0Pressed"              -> {"NETWORK_UPDATE_SIGNAL"}
    [] e = "Key1Pressed"              -> {"BATTERY_MEASURE_SIGNAL"}
    [] e = "Key2Pressed"              -> {"LED_BLINK_SIGNAL"}
    [] e = "TimerExpired"             -> {"NETWORK_UPDATE_SIGNAL"}
    [] e = "NetworkConnected"         -> {}
    [] e = "NetworkDisconnected"      -> {}
    [] e = "ImageDownloaded"          -> {"DISPLAY_UPDATE_SIGNAL"}
    [] e = "ImageDownloadFailed"      -> {}
    [] e = "SchedulerUpdateRequested" -> {"SCHEDULER_INTERRUPT_SIGNAL"}

\* The signals after every signal of the set ss has been set
SignaledAll(sg, ss) == [s \in SignalName |-> IF s \in ss THEN Signaled(sg, s)[s] ELSE sg[s]]

\* An orchestrator that goes to its first receive_event without the bootstrap wake
BootstrapWithoutWake ==
  /\ orch_pc = "start"
  /\ sig' = sig
  /\ orch_pc' = "recv"

\* orchestrator, up to its first receive_event().await: the bootstrap wake
Bootstrap ==
  /\ orch_pc = "start"
  /\ sig' = Signaled(sig, "NETWORK_UPDATE_SIGNAL")
  /\ orch_pc' = "recv"

\* An orchestrator whose match arm awaits something else than receive_event: after
\* handling an event it is suspended in the reaction
DispatchThenSuspended ==
  /\ orch_pc = "recv"
  /\ CanReceive(queue)
  /\ queue' = Received(queue)
  /\ sig' = SignaledAll(sig, Reaction(Head(queue)))
  /\ orch_pc' = "reaction"

\* orchestrator: receive_event() returns and the match arm runs
Dispatch ==
  /\ orch_pc = "recv"
  /\ CanReceive(queue)
  /\ queue' = Received(queue)
  /\ sig' = SignaledAll(sig, Reaction(Head(queue)))
  /\ UNCHANGED orch_pc

\* A block that keeps the guard while the task goes on to its next await.
GuardKeptAcrossAwait(task) == task

\* state.rs 36-39 and the block around every use of get_state: the MutexGuard is
\* dropped at the end of the block, before the task's next await
GuardAtBlockEnd(task) == "none"

\* get_state().await returns once no task holds the guard; the block reads or
\* writes the record and ends
GetState(task) ==
  /\ state_lock = "none"
  /\ state_lock' = GuardAtBlockEnd(task)

\* history: one more update trigger has been dispatched
Counted(n) == IF n < MaxTriggers THEN n + 1 ELSE n

OrchStart ==
  /\ Polled("orchestrator")
  /\ Bootstrap
  /\ trigger' = "bootstrap"
  /\ triggers_waiting' = Counted(triggers_waiting)
  /\ UNCHANGED << queue, app, sched_vars, net_vars, radio_vars, disp_vars, btn_vars,
                  pin_vars, bat_vars, fabric_vars, join_failures, bounced, state_lock, inputs, key2_in_cycle >>
  /\ OrchRunsOn

OrchDispatch ==
  /\ Polled("orchestrator")
  /\ Dispatch
  /\ trigger' = IF "NETWORK_UPDATE_SIGNAL" \in Reaction(Head(queue))
                THEN Head(queue) ELSE trigger
  /\ triggers_waiting' = IF "NETWORK_UPDATE_SIGNAL" \in Reaction(Head(queue))
                         THEN Counted(triggers_waiting) ELSE triggers_waiting
  /\ key2_in_cycle' = IF Head(queue) = "Key2Pressed" /\ CycleRunning
                      THEN Counted(key2_in_cycle) ELSE key2_in_cycle
  /\ UNCHANGED << app, sched_vars, net_vars, radio_vars, disp_vars, btn_vars,
                  pin_vars, bat_vars, fabric_vars, join_failures, bounced, state_lock,
                  inputs >>
  /\ OrchRunsOn

\* ------------------------------------------------------------------ scheduler

\* A scheduler that reads the stored delay once and keeps it
SchedReadOnce ==
  /\ Polled("scheduler")
  /\ sched_pc = "read"
  /\ GetState("scheduler")
  /\ delay_secs' = IF delay_secs = 0 THEN app.next_update_delay_secs ELSE delay_secs
  /\ sched_pc' = "wait"
  /\ UNCHANGED << queue, sig, app, orch_vars, net_vars, radio_vars, disp_vars, btn_vars,
                  pin_vars, bat_vars, fabric_vars, join_failures, trigger, bounced,
                  triggers_waiting, inputs, key2_in_cycle >>
  /\ SchedRunsOn

\* scheduler: read the delay in a critical section and start the select
SchedRead ==
  /\ Polled("scheduler")
  /\ sched_pc = "read"
  /\ GetState("scheduler")
  /\ delay_secs' = app.next_update_delay_secs
  /\ sched_pc' = "wait"
  /\ UNCHANGED << queue, sig, app, orch_vars, net_vars, radio_vars, disp_vars, btn_vars, pin_vars, bat_vars,
                  fabric_vars, join_failures, trigger, bounced,
                  triggers_waiting, inputs, key2_in_cycle >>
  /\ SchedRunsOn

\* scheduler: Timer::after(delay_secs) completes; select polls the timer first
SchedTimerExpired ==
  /\ "update_timer" \in inputs
  /\ Quiet
  /\ sched_pc = "wait"
  /\ Settled("scheduler")
  /\ sched_pc' = "send"
  /\ UNCHANGED << queue, sig, app, delay_secs, orch_vars, net_vars, radio_vars,
                  disp_vars, btn_vars, pin_vars, bat_vars,
                  fabric_vars, trace_vars >>
  /\ SchedRunsOn

\* A scheduler that puts the default delay back when its timer has run out
SchedSendRestoresDefault ==
  /\ Polled("scheduler")
  /\ sched_pc = "send"
  /\ CanSend(queue)
  /\ queue' = Sent(queue, "TimerExpired")
  /\ sched_pc' = "read"
  /\ app' = [app EXCEPT !.next_update_delay_secs = UPDATE_INTERVAL_MINUTES * 60]
  /\ UNCHANGED << sig, delay_secs, orch_vars, net_vars, radio_vars, disp_vars, btn_vars,
                  pin_vars, bat_vars, fabric_vars, trace_vars >>
  /\ SchedRunsOn

\* scheduler: send_event(TimerExpired) completes
SchedSend ==
  /\ Polled("scheduler")
  /\ sched_pc = "send"
  /\ CanSend(queue)
  /\ queue' = Sent(queue, "TimerExpired")
  /\ sched_pc' = "read"
  /\ UNCHANGED << sig, app, delay_secs, orch_vars, net_vars, radio_vars, disp_vars, btn_vars, pin_vars, bat_vars,
                  fabric_vars, trace_vars >>
  /\ SchedRunsOn

\* An interrupt branch that falls into the timer branch's send_event
SchedInterruptedPublishes ==
  /\ Polled("scheduler")
  /\ sched_pc = "wait"
  /\ sig["SCHEDULER_INTERRUPT_SIGNAL"]
  /\ sig' = Taken(sig, "SCHEDULER_INTERRUPT_SIGNAL")
  /\ sched_pc' = "send"
  /\ UNCHANGED << queue, app, delay_secs, orch_vars, net_vars, radio_vars, disp_vars, btn_vars, pin_vars, bat_vars,
                  fabric_vars, trace_vars >>
  /\ SchedRunsOn

\* scheduler: SCHEDULER_INTERRUPT_SIGNAL.wait() wins the select
SchedInterrupted ==
  /\ Polled("scheduler")
  /\ sched_pc = "wait"
  /\ sig["SCHEDULER_INTERRUPT_SIGNAL"]
  /\ sig' = Taken(sig, "SCHEDULER_INTERRUPT_SIGNAL")
  /\ sched_pc' = "read"
  /\ UNCHANGED << queue, app, delay_secs, orch_vars, net_vars, radio_vars, disp_vars, btn_vars, pin_vars, bat_vars,
                  fabric_vars, trace_vars >>
  /\ SchedRunsOn

\* ------------------------------------------------------------------ network_manager

\* A success branch that keeps the stored delay when the server sent none
UpdateStateKeepingDelay(st, server_delay) ==
  [st EXCEPT !.next_update_delay_secs =
                IF server_delay.some THEN server_delay.val ELSE @,
             !.last_download_success = TRUE]

\* task/network.rs 205-224: the critical section of the success branch
UpdateStateFromDownload(st, server_delay) ==
  [st EXCEPT !.next_update_delay_secs =
                IF server_delay.some THEN server_delay.val
                ELSE UPDATE_INTERVAL_MINUTES * 60,
             !.last_download_success = TRUE]

\* A failure branch that leaves last_download_success as it was
DownloadFailedUnmarked(st) == st

\* task/network.rs 238-242: the critical section of the failure branch
MarkDownloadFailed(st) == [st EXCEPT !.last_download_success = FALSE]

\* disconnect_wifi: the condition of the poll loop
StackUp == link_up \/ config_up

\* network_manager, up to the first select: firmware load, driver and stack start
NetInit ==
  /\ Polled("network_manager")
  /\ net_pc = "init"
  /\ net_pc' = "idle"
  /\ UNCHANGED << queue, sig, app, orch_vars, sched_vars, blink_i, led, timeout_counter,
                  joined, response, old_delay, delay_changed, cycle_log, radio_vars,
                  disp_vars, btn_vars, pin_vars, bat_vars,
                  fabric_vars, trace_vars >>
  /\ NetRunsOn

\* A select that polls both waits and keeps the result of the first: the blink wake
\* is consumed by the branch that loses.
NetIdleTakesBoth ==
  /\ Polled("network_manager")
  /\ net_pc = "idle"
  /\ \/ /\ sig["NETWORK_UPDATE_SIGNAL"]
        /\ sig' = Taken(Taken(sig, "NETWORK_UPDATE_SIGNAL"), "LED_BLINK_SIGNAL")
        /\ net_pc' = "join"
        /\ cycle_log' = << "cycle" >>
        /\ triggers_waiting' = 0
        /\ key2_in_cycle' = 0
        /\ UNCHANGED << blink_i, led >>
     \/ /\ ~sig["NETWORK_UPDATE_SIGNAL"]
        /\ sig["LED_BLINK_SIGNAL"]
        /\ sig' = Taken(sig, "LED_BLINK_SIGNAL")
        /\ net_pc' = "blink_on"
        /\ blink_i' = 0
        /\ led' = TRUE
        /\ UNCHANGED << cycle_log, triggers_waiting, key2_in_cycle >>
  /\ UNCHANGED << queue, app, orch_vars, sched_vars, timeout_counter, joined, response,
                  old_delay, delay_changed, radio_vars, disp_vars,
                  btn_vars, pin_vars, bat_vars,
                  fabric_vars, join_failures, trigger, bounced, state_lock, inputs >>
  /\ NetRunsOn

\* network_manager: the select of NETWORK_UPDATE_SIGNAL.wait() and LED_BLINK_SIGNAL.wait()
\* resolves; it polls the update signal first, and the branch it takes starts
NetIdle ==
  /\ Polled("network_manager")
  /\ net_pc = "idle"
  /\ \/ /\ sig["NETWORK_UPDATE_SIGNAL"]
        /\ sig' = Taken(sig, "NETWORK_UPDATE_SIGNAL")
        /\ net_pc' = "join"
        /\ cycle_log' = << "cycle" >>
        /\ triggers_waiting' = 0
        /\ key2_in_cycle' = 0
        /\ UNCHANGED << blink_i, led >>
     \/ /\ ~sig["NETWORK_UPDATE_SIGNAL"]
        /\ sig["LED_BLINK_SIGNAL"]
        /\ sig' = Taken(sig, "LED_BLINK_SIGNAL")
        /\ net_pc' = "blink_on"
        /\ blink_i' = 0
        /\ led' = TRUE
        /\ UNCHANGED << cycle_log, triggers_waiting, key2_in_cycle >>
  /\ UNCHANGED << queue, app, orch_vars, sched_vars, timeout_counter, joined, response,
                  old_delay, delay_changed, radio_vars, disp_vars,
                  btn_vars, pin_vars, bat_vars,
                  fabric_vars, join_failures, trigger, bounced, state_lock, inputs >>
  /\ NetRunsOn

\* blink_led: the first 200 ms wait of an iteration ends, the LED goes off
NetBlinkOff ==
  /\ Polled("network_manager")
  /\ net_pc = "blink_on"
  /\ led' = FALSE
  /\ net_pc' = "blink_off"
  /\ UNCHANGED << queue, sig, app, orch_vars, sched_vars, blink_i, timeout_counter,
                  joined, response, old_delay, delay_changed, cycle_log, radio_vars,
                  disp_vars, btn_vars, pin_vars, bat_vars,
                  fabric_vars, trace_vars >>
  /\ NetRunsOn

\* A blink branch without its continue: after the last iteration the manager goes
\* on to the update path.
NetBlinkNextFallsThrough ==
  /\ Polled("network_manager")
  /\ net_pc = "blink_off"
  /\ IF blink_i + 1 < BLINK_COUNT
     THEN /\ blink_i' = blink_i + 1
          /\ led' = TRUE
          /\ net_pc' = "blink_on"
     ELSE /\ blink_i' = 0
          /\ led' = FALSE
          /\ net_pc' = "join"
  /\ UNCHANGED << queue, sig, app, orch_vars, sched_vars, timeout_counter, joined,
                  response, old_delay, delay_changed, cycle_log, radio_vars,
                  disp_vars, btn_vars, pin_vars, bat_vars,
                  fabric_vars, trace_vars >>
  /\ NetRunsOn

\* blink_led: the second 200 ms wait ends; next iteration, or back to the select
NetBlinkNext ==
  /\ Polled("network_manager")
  /\ net_pc = "blink_off"
  /\ IF blink_i + 1 < BLINK_COUNT
     THEN /\ blink_i' = blink_i + 1
          /\ led' = TRUE
          /\ net_pc' = "blink_on"
     ELSE /\ blink_i' = 0
          /\ led' = FALSE
          /\ net_pc' = "idle"
  /\ UNCHANGED << queue, sig, app, orch_vars, sched_vars, timeout_counter, joined,
                  response, old_delay, delay_changed, cycle_log, radio_vars,
                  disp_vars, btn_vars, pin_vars, bat_vars,
                  fabric_vars, trace_vars >>
  /\ NetRunsOn

\* network_manager: control.join() returns; Err waits the 1 s backoff
NetJoin ==
  /\ Polled("network_manager")
  /\ net_pc = "join"
  /\ \E joined_ok \in BOOLEAN :
       IF joined_ok
       THEN /\ joined' = TRUE
            /\ net_pc' = "wait_link"
            /\ UNCHANGED join_failures
       ELSE /\ join_failures < MaxJoinFailures
            /\ joined' = joined
            /\ net_pc' = "join_backoff"
            /\ join_failures' = join_failures + 1
  /\ UNCHANGED << queue, sig, app, orch_vars, sched_vars, blink_i, led, timeout_counter,
                  response, old_delay, delay_changed, cycle_log, radio_vars,
                  disp_vars, btn_vars, pin_vars, bat_vars,
                  fabric_vars, trigger, bounced, state_lock, triggers_waiting, inputs, key2_in_cycle >>
  /\ NetRunsOn

\* A join loop that gives up once MaxJoinFailures attempts have failed
NetJoinGivesUp ==
  /\ Polled("network_manager")
  /\ net_pc = "join_backoff"
  /\ net_pc' = IF join_failures < MaxJoinFailures THEN "join" ELSE "idle"
  /\ UNCHANGED << queue, sig, app, orch_vars, sched_vars, blink_i, led, timeout_counter,
                  joined, response, old_delay, delay_changed, cycle_log, radio_vars,
                  disp_vars, btn_vars, pin_vars, bat_vars, fabric_vars, trace_vars >>
  /\ NetRunsOn

\* network_manager: Timer::after(1 s) of the join loop ends, join is tried again
NetJoinRetry ==
  /\ Polled("network_manager")
  /\ net_pc = "join_backoff"
  /\ net_pc' = "join"
  /\ UNCHANGED << queue, sig, app, orch_vars, sched_vars, blink_i, led, timeout_counter,
                  joined, response, old_delay, delay_changed, cycle_log, radio_vars,
                  disp_vars, btn_vars, pin_vars, bat_vars,
                  fabric_vars, trace_vars >>
  /\ NetRunsOn

\* network_manager: stack.wait_link_up() returns
NetLinkUp ==
  /\ Polled("network_manager")
  /\ net_pc = "wait_link"
  /\ link_up
  /\ net_pc' = "wait_config"
  /\ UNCHANGED << queue, sig, app, orch_vars, sched_vars, blink_i, led, timeout_counter,
                  joined, response, old_delay, delay_changed, cycle_log, radio_vars,
                  disp_vars, btn_vars, pin_vars, bat_vars,
                  fabric_vars, trace_vars >>
  /\ NetRunsOn

\* A manager that goes on to NetworkConnected without setting wifi_connected
NetConfigUpUnmarked ==
  /\ Polled("network_manager")
  /\ net_pc = "wait_config"
  /\ Settled("network_manager")
  /\ config_up
  /\ GetState("network_manager")
  /\ app' = app
  /\ net_pc' = "send_connected"
  /\ cycle_log' = Append(cycle_log, "mark_connected")
  /\ UNCHANGED << queue, sig, orch_vars, sched_vars, blink_i, led, timeout_counter,
                  joined, response, old_delay, delay_changed, radio_vars,
                  disp_vars, btn_vars, pin_vars, bat_vars,
                  fabric_vars, join_failures, trigger, bounced,
                  triggers_waiting, inputs, key2_in_cycle >>
  /\ NetRunsOn

\* network_manager: stack.wait_config_up() returns; wifi_connected is set
NetConfigUp ==
  /\ Polled("network_manager")
  /\ net_pc = "wait_config"
  /\ Settled("network_manager")
  /\ config_up
  /\ GetState("network_manager")
  /\ app' = [app EXCEPT !.wifi_connected = TRUE]
  /\ net_pc' = "send_connected"
  /\ cycle_log' = Append(cycle_log, "mark_connected")
  /\ UNCHANGED << queue, sig, orch_vars, sched_vars, blink_i, led, timeout_counter,
                  joined, response, old_delay, delay_changed, radio_vars,
                  disp_vars, btn_vars, pin_vars, bat_vars,
                  fabric_vars, join_failures, trigger, bounced,
                  triggers_waiting, inputs, key2_in_cycle >>
  /\ NetRunsOn

\* network_manager: send_event(NetworkConnected) completes; download_image starts
NetSendConnected ==
  /\ Polled("network_manager")
  /\ net_pc = "send_connected"
  /\ CanSend(queue)
  /\ queue' = Sent(queue, "NetworkConnected")
  /\ net_pc' = "request"
  /\ cycle_log' = Append(cycle_log, "NetworkConnected")
  /\ join_failures' = 0
  /\ UNCHANGED << sig, app, orch_vars, sched_vars, blink_i, led, timeout_counter,
                  joined, response, old_delay, delay_changed, radio_vars,
                  disp_vars, btn_vars, pin_vars, bat_vars,
                  fabric_vars, trigger, bounced, state_lock, triggers_waiting, inputs, key2_in_cycle >>
  /\ NetRunsOn

\* network_manager, from download_image returning to the first send_event of the branch:
\* the match on the result and the critical section of the branch taken
DownloadReturned(r) ==
  LET result == download_image(r) IN
  /\ GetState("network_manager")
  /\ response' = r
  /\ cycle_log' = Append(cycle_log, "download")
  /\ IF result.ok
     THEN /\ old_delay' = app.next_update_delay_secs
          /\ app' = UpdateStateFromDownload(app, result.next_delay)
          /\ delay_changed' = (old_delay' # app'.next_update_delay_secs)
          /\ net_pc' = "send_downloaded"
     ELSE /\ app' = MarkDownloadFailed(app)
          /\ net_pc' = "send_failed"
          /\ UNCHANGED << old_delay, delay_changed >>

\* download_image: http_client.request() returns; on Ok the response starts to arrive
\* in image_buffer (request.send(image_buffer))
NetRequest ==
  /\ Polled("network_manager")
  /\ net_pc = "request"
  /\ Settled("network_manager")
  /\ \E request_ok \in BOOLEAN :
       IF request_ok
       THEN /\ net_pc' = "downloading"
            /\ UNCHANGED << app, response, old_delay, delay_changed, cycle_log,
                            state_lock >>
       ELSE DownloadReturned(Resp("request_failed", 0, << >>, 0))
  /\ UNCHANGED << queue, sig, orch_vars, sched_vars, blink_i, led, timeout_counter,
                  joined, radio_vars, disp_vars, btn_vars, pin_vars, bat_vars,
                  fabric_vars, join_failures, trigger, bounced,
                  triggers_waiting, inputs, key2_in_cycle >>
  /\ NetRunsOn

\* download_image: the exchange ends (send fails, or the status, the headers and the
\* body have been read) and network_manager handles the result
NetDownloadDone ==
  /\ Polled("network_manager")
  /\ net_pc = "downloading"
  /\ Settled("network_manager")
  /\ \E r \in Responses : DownloadReturned(r)
  /\ UNCHANGED << queue, sig, orch_vars, sched_vars, blink_i, led, timeout_counter,
                  joined, radio_vars, disp_vars, btn_vars, pin_vars, bat_vars,
                  fabric_vars, join_failures, trigger, bounced,
                  triggers_waiting, inputs, key2_in_cycle >>
  /\ NetRunsOn

\* A success branch that publishes ImageDownloaded and goes on to disconnect
\* whether or not the delay changed
NetSendDownloadedUnnotified ==
  /\ Polled("network_manager")
  /\ net_pc = "send_downloaded"
  /\ CanSend(queue)
  /\ queue' = Sent(queue, "ImageDownloaded")
  /\ cycle_log' = Append(cycle_log, "ImageDownloaded")
  /\ net_pc' = "leave"
  /\ response' = NoResponse
  /\ old_delay' = 0
  /\ delay_changed' = FALSE
  /\ UNCHANGED << sig, app, orch_vars, sched_vars, blink_i, led, timeout_counter,
                  joined, radio_vars, disp_vars, btn_vars, pin_vars,
                  bat_vars,
                  fabric_vars, trace_vars >>
  /\ NetRunsOn

\* network_manager: send_event(ImageDownloaded) completes
NetSendDownloaded ==
  /\ Polled("network_manager")
  /\ net_pc = "send_downloaded"
  /\ CanSend(queue)
  /\ queue' = Sent(queue, "ImageDownloaded")
  /\ cycle_log' = Append(cycle_log, "ImageDownloaded")
  /\ IF delay_changed
     THEN /\ net_pc' = "send_scheduler_update"
          /\ UNCHANGED << response, old_delay, delay_changed >>
     ELSE /\ net_pc' = "leave"
          /\ response' = NoResponse
          /\ old_delay' = 0
          /\ delay_changed' = FALSE
  /\ UNCHANGED << sig, app, orch_vars, sched_vars, blink_i, led, timeout_counter,
                  joined, radio_vars, disp_vars, btn_vars, pin_vars,
                  bat_vars,
                  fabric_vars, trace_vars >>
  /\ NetRunsOn

\* A success branch that publishes ImageDownloaded a second time in place of
\* SchedulerUpdateRequested
NetSendDownloadedAgain ==
  /\ Polled("network_manager")
  /\ net_pc = "send_scheduler_update"
  /\ CanSend(queue)
  /\ queue' = Sent(queue, "ImageDownloaded")
  /\ cycle_log' = Append(cycle_log, "ImageDownloaded")
  /\ net_pc' = "leave"
  /\ response' = NoResponse
  /\ old_delay' = 0
  /\ delay_changed' = FALSE
  /\ UNCHANGED << sig, app, orch_vars, sched_vars, blink_i, led, timeout_counter,
                  joined, radio_vars, disp_vars, btn_vars, pin_vars,
                  bat_vars,
                  fabric_vars, trace_vars >>
  /\ NetRunsOn

\* network_manager: send_event(SchedulerUpdateRequested) completes
NetSendSchedulerUpdate ==
  /\ Polled("network_manager")
  /\ net_pc = "send_scheduler_update"
  /\ CanSend(queue)
  /\ queue' = Sent(queue, "SchedulerUpdateRequested")
  /\ cycle_log' = Append(cycle_log, "SchedulerUpdateRequested")
  /\ net_pc' = "leave"
  /\ response' = NoResponse
  /\ old_delay' = 0
  /\ delay_changed' = FALSE
  /\ UNCHANGED << sig, app, orch_vars, sched_vars, blink_i, led, timeout_counter,
                  joined, radio_vars, disp_vars, btn_vars, pin_vars,
                  bat_vars,
                  fabric_vars, trace_vars >>
  /\ NetRunsOn

\* A failure branch that goes back to the select without disconnecting
NetSendFailedThenIdle ==
  /\ Polled("network_manager")
  /\ net_pc = "send_failed"
  /\ CanSend(queue)
  /\ queue' = Sent(queue, "ImageDownloadFailed")
  /\ cycle_log' = << >>
  /\ net_pc' = "idle"
  /\ response' = NoResponse
  /\ UNCHANGED << sig, app, orch_vars, sched_vars, blink_i, led, timeout_counter,
                  joined, old_delay, delay_changed, radio_vars, disp_vars,
                  btn_vars, pin_vars, bat_vars,
                  fabric_vars, trace_vars >>
  /\ NetRunsOn

\* network_manager: send_event(ImageDownloadFailed) completes
NetSendFailed ==
  /\ Polled("network_manager")
  /\ net_pc = "send_failed"
  /\ CanSend(queue)
  /\ queue' = Sent(queue, "ImageDownloadFailed")
  /\ cycle_log' = Append(cycle_log, "ImageDownloadFailed")
  /\ net_pc' = "leave"
  /\ response' = NoResponse
  /\ UNCHANGED << sig, app, orch_vars, sched_vars, blink_i, led, timeout_counter,
                  joined, old_delay, delay_changed, radio_vars, disp_vars,
                  btn_vars, pin_vars, bat_vars,
                  fabric_vars, trace_vars >>
  /\ NetRunsOn

\* A poll loop without the timeout
AfterPollNoTimeout(counter) == IF StackUp THEN "poll" ELSE "power_save"

\* disconnect_wifi: where the poll loop goes after timeout_counter waits
AfterPoll(counter) ==
  IF counter > DISCONNECT_POLL_LIMIT THEN "power_save"
  ELSE IF StackUp THEN "poll" ELSE "power_save"

\* A disconnect that resets LED_BLINK_SIGNAL when it switches the LED off: a blink
\* asked for during the cycle is lost
NetLeaveDropsBlink ==
  /\ Polled("network_manager")
  /\ net_pc = "leave"
  /\ joined' = FALSE
  /\ led' = FALSE
  /\ timeout_counter' = 0
  /\ net_pc' = IF StackUp THEN "poll" ELSE "power_save"
  /\ cycle_log' = Append(cycle_log, "leave")
  /\ sig' = Taken(sig, "LED_BLINK_SIGNAL")
  /\ UNCHANGED << queue, app, orch_vars, sched_vars, blink_i, response, old_delay,
                  delay_changed, radio_vars, disp_vars, btn_vars,
                  pin_vars, bat_vars,
                  fabric_vars, trace_vars >>
  /\ NetRunsOn

\* disconnect_wifi: control.leave() and gpio_set(0, false) return, the loop is entered
NetLeave ==
  /\ Polled("network_manager")
  /\ net_pc = "leave"
  /\ joined' = FALSE
  /\ led' = FALSE
  /\ timeout_counter' = 0
  /\ net_pc' = IF StackUp THEN "poll" ELSE "power_save"
  /\ cycle_log' = Append(cycle_log, "leave")
  /\ UNCHANGED << queue, sig, app, orch_vars, sched_vars, blink_i, response, old_delay,
                  delay_changed, radio_vars, disp_vars, btn_vars,
                  pin_vars, bat_vars,
                  fabric_vars, trace_vars >>
  /\ NetRunsOn

\* disconnect_wifi: one Timer::after(100 ms) of the poll loop ends
NetPoll ==
  /\ Polled("network_manager")
  /\ net_pc = "poll"
  /\ timeout_counter' = timeout_counter + 1
  /\ net_pc' = AfterPoll(timeout_counter + 1)
  /\ UNCHANGED << queue, sig, app, orch_vars, sched_vars, blink_i, led, joined,
                  response, old_delay, delay_changed, cycle_log, radio_vars,
                  disp_vars, btn_vars, pin_vars, bat_vars,
                  fabric_vars, trace_vars >>
  /\ NetRunsOn

\* A manager that clears last_download_success together with wifi_connected once
\* it has disconnected
NetMarkDisconnectedClearsSuccess ==
  /\ Polled("network_manager")
  /\ net_pc = "power_save"
  /\ Settled("network_manager")
  /\ GetState("network_manager")
  /\ app' = [app EXCEPT !.wifi_connected = FALSE, !.last_download_success = FALSE]
  /\ timeout_counter' = 0
  /\ net_pc' = "send_disconnected"
  /\ cycle_log' = Append(cycle_log, "mark_disconnected")
  /\ UNCHANGED << queue, sig, orch_vars, sched_vars, blink_i, led, joined, response,
                  old_delay, delay_changed, radio_vars, disp_vars,
                  btn_vars, pin_vars, bat_vars,
                  fabric_vars, join_failures, trigger, bounced,
                  triggers_waiting, inputs, key2_in_cycle >>
  /\ NetRunsOn

\* disconnect_wifi returns (set_power_management(SuperSave) done); wifi_connected is
\* cleared
NetMarkDisconnected ==
  /\ Polled("network_manager")
  /\ net_pc = "power_save"
  /\ Settled("network_manager")
  /\ GetState("network_manager")
  /\ app' = [app EXCEPT !.wifi_connected = FALSE]
  /\ timeout_counter' = 0
  /\ net_pc' = "send_disconnected"
  /\ cycle_log' = Append(cycle_log, "mark_disconnected")
  /\ UNCHANGED << queue, sig, orch_vars, sched_vars, blink_i, led, joined, response,
                  old_delay, delay_changed, radio_vars, disp_vars,
                  btn_vars, pin_vars, bat_vars,
                  fabric_vars, join_failures, trigger, bounced,
                  triggers_waiting, inputs, key2_in_cycle >>
  /\ NetRunsOn

\* A manager that resets NETWORK_UPDATE_SIGNAL at the end of a cycle: the triggers
\* that arrived while the cycle ran are lost
NetSendDisconnectedDropsWake ==
  /\ Polled("network_manager")
  /\ net_pc = "send_disconnected"
  /\ CanSend(queue)
  /\ queue' = Sent(queue, "NetworkDisconnected")
  /\ net_pc' = "idle"
  /\ cycle_log' = << >>
  /\ sig' = Taken(sig, "NETWORK_UPDATE_SIGNAL")
  /\ UNCHANGED << app, orch_vars, sched_vars, blink_i, led, timeout_counter,
                  joined, response, old_delay, delay_changed, radio_vars, disp_vars, btn_vars, pin_vars, bat_vars,
                  fabric_vars, trace_vars >>
  /\ NetRunsOn

\* network_manager: send_event(NetworkDisconnected) completes; back to the select
NetSendDisconnected ==
  /\ Polled("network_manager")
  /\ net_pc = "send_disconnected"
  /\ CanSend(queue)
  /\ queue' = Sent(queue, "NetworkDisconnected")
  /\ net_pc' = "idle"
  /\ cycle_log' = << >>
  /\ UNCHANGED << sig, app, orch_vars, sched_vars, blink_i, led, timeout_counter,
                  joined, response, old_delay, delay_changed, radio_vars, disp_vars, btn_vars, pin_vars, bat_vars,
                  fabric_vars, trace_vars >>
  /\ NetRunsOn

\* ------------------------------------------------------------------ radio and stack

\* The link comes up once the radio has joined.
RadioLinkUp ==
  /\ "access_point" \in inputs
  /\ Quiet
  /\ joined /\ ~link_up
  /\ link_up' = TRUE
  /\ UNCHANGED << running, queue, sig, app, orch_vars, sched_vars, net_vars, config_up,
                  disp_vars, btn_vars, pin_vars, bat_vars,
                  fabric_vars, trace_vars >>

\* DHCP assigns an address over a link that is up.
RadioConfigUp ==
  /\ Quiet
  /\ joined /\ link_up /\ ~config_up
  /\ config_up' = TRUE
  /\ UNCHANGED << running, queue, sig, app, orch_vars, sched_vars, net_vars, link_up,
                  disp_vars, btn_vars, pin_vars, bat_vars,
                  fabric_vars, trace_vars >>

\* After leave() the link goes down, at some time or never.
RadioLinkDown ==
  /\ Quiet
  /\ ~joined /\ link_up
  /\ link_up' = FALSE
  /\ UNCHANGED << running, queue, sig, app, orch_vars, sched_vars, net_vars, config_up,
                  disp_vars, btn_vars, pin_vars, bat_vars,
                  fabric_vars, trace_vars >>

\* After leave() the address configuration is dropped, at some time or never.
RadioConfigDown ==
  /\ Quiet
  /\ ~joined /\ config_up
  /\ config_up' = FALSE
  /\ UNCHANGED << running, queue, sig, app, orch_vars, sched_vars, net_vars, link_up,
                  disp_vars, btn_vars, pin_vars, bat_vars,
                  fabric_vars, trace_vars >>

\* ------------------------------------------------------------------ display_handler

\* task/display.rs 24: image_buffer is a [u8; IMAGE_BUFFER_SIZE], so image_buffer.len()
\* is the length of the array, whatever the download put into it
ImageBufferLen == IMAGE_BUFFER_SIZE

\* A display handler that renders whenever it is polled, signal or not
DisplayWakeUnasked ==
  /\ Polled("display_handler")
  /\ disp_pc = "wait"
  /\ GetState("display_handler")
  /\ sig' = Taken(sig, "DISPLAY_UPDATE_SIGNAL")
  /\ disp_pc' = IF ImageBufferLen # IMAGE_BUFFER_SIZE THEN "wait" ELSE "init"
  /\ UNCHANGED << queue, app, orch_vars, sched_vars, net_vars, radio_vars, btn_vars,
                  pin_vars, bat_vars,
                  fabric_vars, join_failures, trigger, bounced,
                  triggers_waiting, inputs, key2_in_cycle >>
  /\ DispRunsOn

\* display_handler: DISPLAY_UPDATE_SIGNAL.wait() returns; battery_percent is read and
\* the length is checked; then the overlay is drawn and epd.init() starts
DisplayWake ==
  /\ Polled("display_handler")
  /\ disp_pc = "wait"
  /\ sig["DISPLAY_UPDATE_SIGNAL"]
  /\ GetState("display_handler")
  /\ sig' = Taken(sig, "DISPLAY_UPDATE_SIGNAL")
  /\ disp_pc' = IF ImageBufferLen # IMAGE_BUFFER_SIZE THEN "wait" ELSE "init"
  /\ UNCHANGED << queue, app, orch_vars, sched_vars, net_vars, radio_vars, btn_vars,
                  pin_vars, bat_vars,
                  fabric_vars, join_failures, trigger, bounced,
                  triggers_waiting, inputs, key2_in_cycle >>
  /\ DispRunsOn

\* display_handler: epd.init(), epd.clear(), epd.display(image_buffer), epd.sleep()
\* return, one after the other
DisplayStep ==
  /\ Polled("display_handler")
  /\ disp_pc \in {"init", "clear", "display", "sleep"}
  /\ disp_pc' = CASE disp_pc = "init"    -> "clear"
                  [] disp_pc = "clear"   -> "display"
                  [] disp_pc = "display" -> "sleep"
                  [] disp_pc = "sleep"   -> "wait"
  /\ UNCHANGED << queue, sig, app, orch_vars, sched_vars, net_vars, radio_vars,
                  btn_vars, pin_vars, bat_vars,
                  fabric_vars, trace_vars >>
  /\ DispRunsOn

\* ------------------------------------------------------------------ image buffer

\* The buffer a task's image_buffer parameter refers to: one buffer, handed to the
\* network manager and to the display handler when the tasks are spawned
ImageBufferOf(task) ==
  CASE task = "network_manager" -> "image_buffer"
    [] task = "display_handler" -> "image_buffer"

\* download_image: request.send(image_buffer) and body().read_to_end() are receiving
\* the response into image_buffer
NetWritesImageBuffer == net_pc = "downloading"

\* display_handler: draw_number has drawn into image_buffer and epd.display has
\* not yet returned
DisplayUsesImageBuffer == disp_pc \in {"init", "clear", "display"}

\* ------------------------------------------------------------------ button_handler

Key == {0, 1, 2}

\* task/buttons.rs 38-42: the event of a button
KeyEvent(k) ==
  CASE k = 0 -> "Key0Pressed" [] k = 1 -> "Key1Pressed" [] k = 2 -> "Key2Pressed"

\* What the surroundings of the firmware can produce: presses of the three keys, the
\* two periodic timers running out, an access point in reach, conversions of the ADC
Input ==
  {"key0", "key1", "key2", "update_timer", "battery_timer", "access_point", "adc"}

KeyInput(k) == CASE k = 0 -> "key0" [] k = 1 -> "key1" [] k = 2 -> "key2"

\* A watcher that waits for the falling edge of the input it watched last only
KeyDownOfLastInput(k) ==
  /\ KeyInput(k) \in inputs
  /\ Quiet
  /\ Settled("button_handler")
  /\ keys[k] = "high"
  /\ presses < MaxPresses
  /\ keys' = [keys EXCEPT ![k] = "low"]
  /\ presses' = presses + 1
  /\ IF btn_pc = "race" /\ k = button
     THEN btn_pc' = "debounce" /\ button' = k
     ELSE UNCHANGED btn_vars
  /\ UNCHANGED << queue, sig, app, orch_vars, sched_vars, net_vars, radio_vars,
                  disp_vars, bat_vars, fabric_vars, trace_vars >>
  /\ BtnRunsOn

\* An input goes low; the select3 of falling edges, if it is waiting, resolves to it
\* and the 50 ms debounce timer starts
KeyDownOf(k) ==
  /\ KeyInput(k) \in inputs
  /\ Quiet
  /\ Settled("button_handler")
  /\ keys[k] = "high"
  /\ presses < MaxPresses
  /\ keys' = [keys EXCEPT ![k] = "low"]
  /\ presses' = presses + 1
  /\ IF btn_pc = "race"
     THEN btn_pc' = "debounce" /\ button' = k
     ELSE UNCHANGED btn_vars
  /\ UNCHANGED << queue, sig, app, orch_vars, sched_vars, net_vars, radio_vars,
                  disp_vars, bat_vars, fabric_vars, trace_vars >>
  /\ BtnRunsOn

KeyDown == \E k \in Key : KeyDownOf(k)

\* An input goes high; wait_for_rising_edge on it, if in progress, returns
KeyUpOf(k) ==
  /\ Quiet
  /\ Settled("button_handler")
  /\ keys[k] = "low"
  /\ keys' = [keys EXCEPT ![k] = "high"]
  /\ IF btn_pc = "release" /\ button = k
     THEN btn_pc' = "send" /\ UNCHANGED button
     ELSE UNCHANGED btn_vars
  /\ bounced' = (bounced \/ (btn_pc = "debounce" /\ button = k))
  /\ UNCHANGED << queue, sig, app, orch_vars, sched_vars, net_vars, radio_vars,
                  disp_vars, presses, bat_vars, fabric_vars, join_failures, trigger, state_lock,
                  triggers_waiting, inputs, key2_in_cycle >>
  /\ BtnRunsOn

KeyUp == \E k \in Key : KeyUpOf(k)

\* A debounce that reports the button as soon as it is found low
ButtonDebouncedNoRelease ==
  /\ Polled("button_handler")
  /\ btn_pc = "debounce"
  /\ btn_pc' = IF keys[button] = "low" THEN "send" ELSE "race"
  /\ bounced' = (bounced /\ keys[button] = "low")
  /\ UNCHANGED << queue, sig, app, orch_vars, sched_vars, net_vars, radio_vars,
                  disp_vars, button, pin_vars, bat_vars,
                  fabric_vars, join_failures, trigger, state_lock,
                  triggers_waiting, inputs, key2_in_cycle >>
  /\ BtnRunsOn

\* wait_for_button_press: the debounce timer ends and the input is sampled
ButtonDebounced ==
  /\ Polled("button_handler")
  /\ btn_pc = "debounce"
  /\ btn_pc' = IF keys[button] = "low" THEN "release" ELSE "race"
  /\ bounced' = (bounced /\ keys[button] = "low")
  /\ UNCHANGED << queue, sig, app, orch_vars, sched_vars, net_vars, radio_vars,
                  disp_vars, button, pin_vars, bat_vars,
                  fabric_vars, join_failures, trigger, state_lock,
                  triggers_waiting, inputs, key2_in_cycle >>
  /\ BtnRunsOn

\* button_handler: send_event of the button's event completes
ButtonSend ==
  /\ Polled("button_handler")
  /\ btn_pc = "send"
  /\ CanSend(queue)
  /\ queue' = Sent(queue, KeyEvent(button))
  /\ btn_pc' = "race"
  /\ bounced' = FALSE
  /\ UNCHANGED << sig, app, orch_vars, sched_vars, net_vars, radio_vars, disp_vars,
                  button, pin_vars, bat_vars, fabric_vars, join_failures, trigger, state_lock,
                  triggers_waiting, inputs, key2_in_cycle >>
  /\ BtnRunsOn

\* ------------------------------------------------------------------ battery_monitor

\* The readings of a full cell
FullCell == << 1700, 1700, 1700, 1700, 1700, 1700, 1700, 1700, 1700 >>

\* The readings the ADC returns to the nine reads of one measurement when they
\* succeed: a burst with a high and a low outlier, a discharging cell, a full cell
AdcScripts ==
  { << 10, 50, 12, 11, 9, 200, 13, 10, 11 >>,
    << 1630, 1164, 1397, 1280, 1536, 1200, 1500, 1450, 1300 >>,
    FullCell }

\* A filter that takes the largest sample
LargestOfPrefix(smp, valid) ==
  SortSeq(SubSeq(smp, 1, valid), LAMBDA x, y : x < y)[valid]

\* measure_battery_percentage 111-112: sort_unstable of samples[..valid_samples] and
\* the element at valid_samples / 2 (index from 0)
MedianOfPrefix(smp, valid) ==
  SortSeq(SubSeq(smp, 1, valid), LAMBDA x, y : x < y)[(valid \div 2) + 1]

\* The readings at which the f32 product f32::from(median_adc) * 3.3 / 4096.0 * 3.2
\* is rounded to just below a whole percentage that the exact product reaches
F32RoundedBelow == {1536}

\* A conversion without the two comparisons and the clamp
PercentageUnclamped(adc) ==
  ((adc * 1056 - 300 * ADC_FULL_SCALE) * 100) \div (120 * ADC_FULL_SCALE)

\* measure_battery_percentage 118-137: battery_voltage = adc * 3.3 / 4096 * 3.2 (here in
\* units of 1/409600 V), 100 from 4.2 V, 0 up to 3.0 V, linear between; `as u8`
\* truncates
Percentage(adc) ==
  IF adc * 1056 >= 420 * ADC_FULL_SCALE THEN 100
  ELSE IF adc * 1056 <= 300 * ADC_FULL_SCALE THEN 0
  ELSE IF adc \in F32RoundedBelow THEN PercentageUnclamped(adc) - 1
  ELSE PercentageUnclamped(adc)

\* measure_battery_percentage 90-91: the locals of a new call
MeasureStarts ==
  /\ adc_in' = << >>
  /\ read_ok' = << >>
  /\ samples' = [i \in 1..SAMPLE_COUNT |-> 0]
  /\ valid_samples' = 0

\* measure_battery_percentage: a loop iteration, adc.read returns and the 5 ms wait
\* ends.  An Ok value is stored at the index of the iteration.  The ADC holds one of
\* scripts for the measurement, and a read returns Ok or Err as outcomes allows.
BatReadOf(scripts, outcomes) ==
  /\ "adc" \in inputs
  /\ Polled("battery_monitor")
  /\ bat_pc \in {"initial", "measure"}
  /\ Len(read_ok) < SAMPLE_COUNT
  /\ \E script \in (IF read_ok = << >> THEN scripts ELSE {adc_in}), ok \in outcomes :
       /\ adc_in' = script
       /\ read_ok' = Append(read_ok, ok)
       /\ samples' = IF ok THEN [samples EXCEPT ![Len(read_ok) + 1] = script[Len(read_ok) + 1]]
                     ELSE samples
       /\ valid_samples' = IF ok THEN valid_samples + 1 ELSE valid_samples
  /\ UNCHANGED << queue, sig, app, orch_vars, sched_vars, net_vars, radio_vars, disp_vars,
                  btn_vars, pin_vars, bat_pc, median_adc, waiter_pc, fabric_vars,
                  trace_vars >>
  /\ BatRunsOn

BatRead == BatReadOf(AdcScripts, BOOLEAN)

\* The reads of a measurement of a full cell, none of which fails
BatReadFullCell == BatReadOf({FullCell}, {TRUE})

\* The value measure_battery_percentage returns
MeasuredPercentage(smp, valid) ==
  IF valid = 0 THEN 0 ELSE Percentage(MedianOfPrefix(smp, valid))

\* battery_monitor 45-49, 64-70: what the task writes to battery_percent
StoredAfterMeasure(old, smp, valid) == MeasuredPercentage(smp, valid)

\* A monitor that resets BATTERY_MEASURE_SIGNAL when a measurement ends: a request
\* made while it measured is lost
BatMeasuredDropsRequest ==
  /\ Polled("battery_monitor")
  /\ bat_pc \in {"initial", "measure"}
  /\ Len(read_ok) = SAMPLE_COUNT
  /\ GetState("battery_monitor")
  /\ median_adc' = IF valid_samples = 0 THEN None
                   ELSE Some(MedianOfPrefix(samples, valid_samples))
  /\ app' = [app EXCEPT
               !.battery_percent = StoredAfterMeasure(@, samples, valid_samples)]
  /\ sig' = IF bat_pc = "initial" THEN Signaled(sig, "BATTERY_READY_SIGNAL")
            ELSE Taken(sig, "BATTERY_MEASURE_SIGNAL")
  /\ bat_pc' = "race"
  /\ samples' = [i \in 1..SAMPLE_COUNT |->
                   IF i <= valid_samples
                   THEN SortSeq(SubSeq(samples, 1, valid_samples), LAMBDA x, y : x < y)[i]
                   ELSE samples[i]]
  /\ UNCHANGED << queue, orch_vars, sched_vars, net_vars, radio_vars, disp_vars, btn_vars,
                  pin_vars, adc_in, read_ok, valid_samples, waiter_pc, fabric_vars,
                  join_failures, trigger, bounced,
                  triggers_waiting, inputs, key2_in_cycle >>
  /\ BatRunsOn

\* battery_monitor: a measurement ends and battery_percent is written; the first one
\* also sets BATTERY_READY_SIGNAL.  The locals of the call are kept as it left them
\* until the next call starts.
BatMeasured ==
  /\ Polled("battery_monitor")
  /\ bat_pc \in {"initial", "measure"}
  /\ Len(read_ok) = SAMPLE_COUNT
  /\ GetState("battery_monitor")
  /\ median_adc' = IF valid_samples = 0 THEN None
                   ELSE Some(MedianOfPrefix(samples, valid_samples))
  /\ app' = [app EXCEPT
               !.battery_percent = StoredAfterMeasure(@, samples, valid_samples)]
  /\ sig' = IF bat_pc = "initial" THEN Signaled(sig, "BATTERY_READY_SIGNAL") ELSE sig
  /\ bat_pc' = "race"
  /\ samples' = [i \in 1..SAMPLE_COUNT |->
                   IF i <= valid_samples
                   THEN SortSeq(SubSeq(samples, 1, valid_samples), LAMBDA x, y : x < y)[i]
                   ELSE samples[i]]
  /\ UNCHANGED << queue, orch_vars, sched_vars, net_vars, radio_vars, disp_vars, btn_vars,
                  pin_vars, adc_in, read_ok, valid_samples, waiter_pc, fabric_vars,
                  join_failures, trigger, bounced,
                  triggers_waiting, inputs, key2_in_cycle >>
  /\ BatRunsOn

\* battery_monitor: the 300 s timer wins the select
BatTimer ==
  /\ "battery_timer" \in inputs
  /\ Quiet
  /\ bat_pc = "race"
  /\ bat_pc' = "measure"
  /\ MeasureStarts
  /\ UNCHANGED << queue, sig, app, orch_vars, sched_vars, net_vars, radio_vars,
                  disp_vars, btn_vars, pin_vars, median_adc, waiter_pc, fabric_vars,
                  trace_vars >>
  /\ BatRunsOn

\* battery_monitor: BATTERY_MEASURE_SIGNAL.wait() wins the select
BatSignalled ==
  /\ Polled("battery_monitor")
  /\ bat_pc = "race"
  /\ sig["BATTERY_MEASURE_SIGNAL"]
  /\ sig' = Taken(sig, "BATTERY_MEASURE_SIGNAL")
  /\ bat_pc' = "measure"
  /\ MeasureStarts
  /\ UNCHANGED << queue, app, orch_vars, sched_vars, net_vars, radio_vars,
                  disp_vars, btn_vars, pin_vars, median_adc, waiter_pc, fabric_vars,
                  trace_vars >>
  /\ BatRunsOn

\* wait_battery_ready: BATTERY_READY_SIGNAL.wait() of a caller returns and takes the
\* signal
WaitBatteryReady ==
  \E w \in Waiter :
    /\ Quiet
    /\ waiter_pc[w] = "waiting"
    /\ sig["BATTERY_READY_SIGNAL"]
    /\ sig' = Taken(sig, "BATTERY_READY_SIGNAL")
    /\ waiter_pc' = [waiter_pc EXCEPT ![w] = "released"]
    /\ UNCHANGED << queue, app, orch_vars, sched_vars, net_vars, radio_vars, disp_vars,
                    btn_vars, pin_vars, bat_pc, adc_in, read_ok, samples, valid_samples,
                    median_adc, running, fabric_vars, trace_vars >>

\* ------------------------------------------------------------------ the system

\* Every task at its entry, before the battery monitor's first measurement
InitTasks ==
  /\ queue = << >>
  /\ sig = [s \in SignalName |-> FALSE]
  /\ app = AppStateNew(UPDATE_INTERVAL_MINUTES)
  /\ orch_pc = "start"
  /\ sched_pc = "read"
  /\ delay_secs = 0
  /\ net_pc = "init"
  /\ blink_i = 0
  /\ led = FALSE
  /\ timeout_counter = 0
  /\ joined = FALSE
  /\ link_up = FALSE
  /\ config_up = FALSE
  /\ response = NoResponse
  /\ old_delay = 0
  /\ delay_changed = FALSE
  /\ disp_pc = "wait"
  /\ btn_pc = "race"
  /\ button = 0
  /\ keys = [k \in Key |-> "high"]
  /\ presses = 0
  /\ bat_pc = "initial"
  /\ median_adc = None
  /\ waiter_pc = [w \in Waiter |-> "waiting"]
  /\ running = "none"
  /\ cycle_log = << >>
  /\ published = [p \in Producer |-> << >>]
  /\ received_by = [p \in Producer |-> << >>]
  /\ pending = [p \in Producer |-> "none"]
  /\ sets_since = [s \in SignalName |-> 0]
  /\ wakes_since = [s \in SignalName |-> 0]
  /\ last_dispatched = "none"
  /\ join_failures = 0
  /\ trigger = "none"
  /\ bounced = FALSE
  /\ state_lock = "none"
  /\ triggers_waiting = 0
  /\ key2_in_cycle = 0

Init ==
  /\ InitTasks
  /\ inputs = Input
  /\ adc_in = << >>
  /\ read_ok = << >>
  /\ samples = [i \in 1..SAMPLE_COUNT |-> 0]
  /\ valid_samples = 0

\* Every task of the firmware.
NextAll ==
  \/ OrchStart \/ OrchDispatch
  \/ SchedRead \/ SchedTimerExpired \/ SchedSend \/ SchedInterrupted
  \/ NetInit \/ NetIdle \/ NetBlinkOff \/ NetBlinkNext \/ NetJoin \/ NetJoinRetry
  \/ NetLinkUp \/ NetConfigUp \/ NetSendConnected \/ NetRequest \/ NetDownloadDone
  \/ NetSendDownloaded \/ NetSendSchedulerUpdate \/ NetSendFailed \/ NetLeave
  \/ NetPoll \/ NetMarkDisconnected \/ NetSendDisconnected
  \/ RadioLinkUp \/ RadioConfigUp \/ RadioLinkDown \/ RadioConfigDown
  \/ DisplayWake \/ DisplayStep
  \/ KeyDown \/ KeyUp \/ ButtonDebounced \/ ButtonSend
  \/ BatRead \/ BatMeasured \/ BatTimer \/ BatSignalled \/ WaitBatteryReady

\* The update cycle: orchestrator, scheduler, network manager with the radio, and
\* display handler.  No key is pressed, and battery_percent keeps its boot value.
Next ==
  \/ OrchStart \/ OrchDispatch
  \/ SchedRead \/ SchedTimerExpired \/ SchedSend \/ SchedInterrupted
  \/ NetInit \/ NetIdle \/ NetJoin \/ NetJoinRetry
  \/ NetLinkUp \/ NetConfigUp \/ NetSendConnected \/ NetRequest \/ NetDownloadDone
  \/ NetSendDownloaded \/ NetSendSchedulerUpdate \/ NetSendFailed \/ NetLeave
  \/ NetPoll \/ NetMarkDisconnected \/ NetSendDisconnected
  \/ RadioLinkUp \/ RadioConfigUp \/ RadioLinkDown \/ RadioConfigDown
  \/ DisplayWake \/ DisplayStep

Spec == Init /\ [][Next]_vars

\* The update cycle until the scheduler's first timer runs out: no event is
\* published but those of the network manager.  Each task that can run is
\* polled in the end.
NextBoot ==
  \/ OrchStart \/ OrchDispatch
  \/ SchedRead \/ SchedInterrupted
  \/ NetInit \/ NetIdle \/ NetJoin \/ NetJoinRetry
  \/ NetLinkUp \/ NetConfigUp \/ NetSendConnected \/ NetRequest \/ NetDownloadDone
  \/ NetSendDownloaded \/ NetSendSchedulerUpdate \/ NetSendFailed \/ NetLeave
  \/ NetPoll \/ NetMarkDisconnected \/ NetSendDisconnected
  \/ RadioLinkUp \/ RadioConfigUp \/ RadioLinkDown \/ RadioConfigDown
  \/ DisplayWake \/ DisplayStep

SpecBoot ==
  /\ Init
  /\ [][NextBoot]_vars
  /\ WF_vars(OrchStart)
  /\ WF_vars(NetInit)
  /\ WF_vars(NetIdle)

\* The user presses and releases KEY0
Key0Down == KeyDownOf(0)

Key0Up == KeyUpOf(0)

\* The update cycle with KEY0 as the only source of wakes after the bootstrap: the
\* button handler with the orchestrator, the network manager, the display handler
\* and a scheduler whose timer does not run out.  The stack goes on reporting the
\* link and the address once they are up, so that disconnect_wifi polls to its end.
NextKey0 ==
  \/ OrchStart \/ OrchDispatch
  \/ SchedRead \/ SchedInterrupted
  \/ NetInit \/ NetIdle \/ NetJoin \/ NetJoinRetry
  \/ NetLinkUp \/ NetConfigUp \/ NetSendConnected \/ NetRequest \/ NetDownloadDone
  \/ NetSendDownloaded \/ NetSendSchedulerUpdate \/ NetSendFailed \/ NetLeave
  \/ NetPoll \/ NetMarkDisconnected \/ NetSendDisconnected
  \/ RadioLinkUp \/ RadioConfigUp
  \/ DisplayWake \/ DisplayStep
  \/ Key0Down \/ Key0Up \/ ButtonDebounced \/ ButtonSend

SpecKey0 == Init /\ [][NextKey0]_vars

\* The user presses and releases KEY2
Key2Down == KeyDownOf(2)

Key2Up == KeyUpOf(2)

\* The network manager with both of its wakes: the update cycle of the bootstrap,
\* and KEY2 for the LED blink.  The scheduler's timer does not run out and the stack
\* goes on reporting the link and the address once they are up.
NextBlink ==
  \/ OrchStart \/ OrchDispatch
  \/ SchedRead \/ SchedInterrupted
  \/ NetInit \/ NetIdle \/ NetBlinkOff \/ NetBlinkNext \/ NetJoin \/ NetJoinRetry
  \/ NetLinkUp \/ NetConfigUp \/ NetSendConnected \/ NetRequest \/ NetDownloadDone
  \/ NetSendDownloaded \/ NetSendSchedulerUpdate \/ NetSendFailed \/ NetLeave
  \/ NetPoll \/ NetMarkDisconnected \/ NetSendDisconnected
  \/ RadioLinkUp \/ RadioConfigUp
  \/ DisplayWake \/ DisplayStep
  \/ Key2Down \/ Key2Up \/ ButtonDebounced \/ ButtonSend

SpecBlink == Init /\ [][NextBlink]_vars

\* The surroundings in which one of the three selects of the firmware has both of
\* its branches ready: KEY2 pressed around the update cycle of the bootstrap (network
\* manager), the update timer running out around update cycles (scheduler), KEY1
\* pressed around the 300 s timer with no access point in reach (battery monitor)
RaceInputs ==
  { {"key2", "access_point"},
    {"update_timer", "access_point"},
    {"key1", "battery_timer", "adc"} }

InitRaces ==
  /\ InitTasks
  /\ inputs \in RaceInputs
  /\ adc_in = << >>
  /\ read_ok = << >>
  /\ samples = [i \in 1..SAMPLE_COUNT |-> 0]
  /\ valid_samples = 0

\* Every task of the firmware; each ADC read succeeds, and the stack goes on
\* reporting the link and the address once they are up.
NextRaces ==
  \/ OrchStart \/ OrchDispatch
  \/ SchedRead \/ SchedTimerExpired \/ SchedSend \/ SchedInterrupted
  \/ NetInit \/ NetIdle \/ NetBlinkOff \/ NetBlinkNext \/ NetJoin \/ NetJoinRetry
  \/ NetLinkUp \/ NetConfigUp \/ NetSendConnected \/ NetRequest \/ NetDownloadDone
  \/ NetSendDownloaded \/ NetSendSchedulerUpdate \/ NetSendFailed \/ NetLeave
  \/ NetPoll \/ NetMarkDisconnected \/ NetSendDisconnected
  \/ RadioLinkUp \/ RadioConfigUp
  \/ DisplayWake \/ DisplayStep
  \/ KeyDown \/ KeyUp \/ ButtonDebounced \/ ButtonSend
  \/ BatReadFullCell \/ BatMeasured \/ BatTimer \/ BatSignalled

SpecRaces == InitRaces /\ [][NextRaces]_vars

\* Every task of the firmware, in the surroundings above and in one more where both
\* writers of the application state are at work: the update cycle of the bootstrap
\* while the battery monitor makes its first measurement
InitWriters ==
  /\ InitTasks
  /\ inputs \in RaceInputs \cup { {"access_point", "adc"} }
  /\ adc_in = << >>
  /\ read_ok = << >>
  /\ samples = [i \in 1..SAMPLE_COUNT |-> 0]
  /\ valid_samples = 0

SpecWriters == InitWriters /\ [][NextRaces]_vars

\* The battery monitor with KEY1 and its 300 s timer: button handler, orchestrator
\* and battery monitor, every ADC read succeeding, while the network manager is
\* still initialising.  A task that is ready to run is polled, a read that can
\* return does, and a measurement that has its nine reads ends.
InitKey1 ==
  /\ InitTasks
  /\ inputs = {"key1", "battery_timer", "adc"}
  /\ adc_in = << >>
  /\ read_ok = << >>
  /\ samples = [i \in 1..SAMPLE_COUNT |-> 0]
  /\ valid_samples = 0

NextKey1 ==
  \/ OrchStart \/ OrchDispatch
  \/ KeyDown \/ KeyUp \/ ButtonDebounced \/ ButtonSend
  \/ BatReadFullCell \/ BatMeasured \/ BatTimer \/ BatSignalled

SpecKey1 ==
  /\ InitKey1
  /\ [][NextKey1]_vars
  /\ WF_vars(OrchStart)
  /\ WF_vars(OrchDispatch)
  /\ WF_vars(ButtonSend)
  /\ WF_vars(BatReadFullCell)
  /\ WF_vars(BatMeasured)
  /\ WF_vars(BatSignalled)

\* The readings of the 12-bit ADC
AdcRange == 0..(ADC_FULL_SCALE - 1)

\* The first measurement after its ninth read, with the ADC steady at any reading
InitConvert ==
  /\ InitTasks
  /\ inputs = Input
  /\ \E reading \in AdcRange :
       /\ adc_in = [i \in 1..SAMPLE_COUNT |-> reading]
       /\ samples = [i \in 1..SAMPLE_COUNT |-> reading]
  /\ read_ok = [i \in 1..SAMPLE_COUNT |-> TRUE]
  /\ valid_samples = SAMPLE_COUNT

\* The conversion of the median to a percentage, applied to every reading
NextConvert == BatMeasured

SpecConvert == InitConvert /\ [][NextConvert]_vars

\* The three keys and the button handler, with the orchestrator receiving its events
NextButtons ==
  \/ KeyDown \/ KeyUp \/ ButtonDebounced \/ ButtonSend
  \/ OrchStart \/ OrchDispatch

SpecButtons == Init /\ [][NextButtons]_vars

\* The battery monitor on its 300 s timer, with the callers of wait_battery_ready
NextBattery == BatRead \/ BatMeasured \/ BatTimer \/ WaitBatteryReady

SpecBattery == Init /\ [][NextBattery]_vars


\* ------------------------------------------------------------------ the event channel
\* The channel under producers that publish as fast as they can: the three tasks
\* that call send_event, each publishing the events it publishes in the firmware,
\* and the orchestrator as the only receiver.

\* What the tasks do not touch while only the channel and the signals are exercised
task_vars ==
  << app, sched_vars, net_vars, radio_vars, disp_vars, btn_vars, pin_vars, bat_vars,
     running, trace_vars >>

\* The events each producer publishes, in an order it can publish them in
\* (buttons.rs 38-42, orchestrator.rs 104, task/network.rs 192-257)
Program(p) ==
  CASE p = "button_handler"  -> << "Key0Pressed", "Key1Pressed", "Key2Pressed" >>
    [] p = "scheduler"       -> << "TimerExpired" >>
    [] p = "network_manager" -> << "NetworkConnected", "ImageDownloaded",
                                   "SchedulerUpdateRequested", "NetworkDisconnected",
                                   "NetworkConnected", "ImageDownloadFailed",
                                   "NetworkDisconnected",
                                   "NetworkConnected", "ImageDownloaded",
                                   "NetworkDisconnected" >>

NextEvent(p) == Program(p)[(Len(published[p]) % Len(Program(p))) + 1]

\* The events a producer publishes in all: the network manager those of its three
\* kinds of cycle, the others as many as the bound allows
Budget(p) == IF p = "network_manager" THEN Len(Program(p)) ELSE MaxPublish

\* The task that publishes an event
ProducerOf(e) ==
  CASE e \in {"Key0Pressed", "Key1Pressed", "Key2Pressed"} -> "button_handler"
    [] e = "TimerExpired"                                  -> "scheduler"
    [] OTHER                                               -> "network_manager"

\* One pass of each producer through the events it publishes
Round(p) == Len(Program(p))

\* A producer that has published fewer than limit[p] events calls send_event: the
\* event is queued at once if there is room, and the producer is suspended in
\* send_event otherwise
BusSendWithin(limit) ==
  \E p \in Producer :
    /\ pending[p] = "none"
    /\ Len(published[p]) < limit[p]
    /\ published' = [published EXCEPT ![p] = Append(@, NextEvent(p))]
    /\ IF CanSend(queue)
       THEN queue' = Sent(queue, NextEvent(p)) /\ UNCHANGED pending
       ELSE pending' = [pending EXCEPT ![p] = NextEvent(p)] /\ UNCHANGED queue
    /\ UNCHANGED << sig, orch_vars, task_vars, received_by, sets_since, wakes_since,
                    last_dispatched >>

\* A producer calls send_event
BusSend == BusSendWithin([p \in Producer |-> Budget(p)])

\* A producer calls send_event, in its one pass
BusSendRound == BusSendWithin([p \in Producer |-> Round(p)])

\* The suspended send_event of producer p completes once the queue has room
BusResumeOf(p) ==
  /\ pending[p] # "none"
  /\ CanSend(queue)
  /\ queue' = Sent(queue, pending[p])
  /\ pending' = [pending EXCEPT ![p] = "none"]
  /\ UNCHANGED << sig, orch_vars, task_vars, published, received_by, sets_since,
                  wakes_since, last_dispatched >>

\* A suspended send_event completes once the queue has room
BusResume == \E p \in Producer : BusResumeOf(p)

\* The orchestrator receives and handles the oldest event
BusReceive ==
  /\ Dispatch
  /\ received_by' = [received_by EXCEPT ![ProducerOf(Head(queue))] = Append(@, Head(queue))]
  /\ UNCHANGED << task_vars, published, pending, sets_since, wakes_since,
                  last_dispatched >>

\* The orchestrator starts
BusStart ==
  /\ Bootstrap
  /\ UNCHANGED << queue, task_vars, fabric_vars >>

NextBus == BusStart \/ BusSend \/ BusResume \/ BusReceive

SpecBus == Init /\ [][NextBus]_vars

\* The channel while each producer goes once through its events, under an executor
\* that polls every task that has been woken: the orchestrator whenever an event is
\* queued, a suspended sender whenever the queue has room.
NextBusFair == BusStart \/ BusSendRound \/ BusResume \/ BusReceive

SpecBusFair ==
  /\ Init /\ [][NextBusFair]_vars
  /\ WF_vars(BusStart)
  /\ WF_vars(BusReceive)
  /\ \A p \in Producer : WF_vars(BusResumeOf(p))

\* ------------------------------------------------------------------ the wake signals
\* The signals under an orchestrator that is fed every kind of event and waiters
\* that observe their signal at any time.

\* The signals the orchestrator sets
OrchSignal == SignalName \ {"BATTERY_READY_SIGNAL"}

\* signal() calls on s still to come from the events in the queue
InFlight(s) == Cardinality({i \in 1..Len(queue) : s \in Reaction(queue[i])})

\* Some task publishes an event
SigSend ==
  \E e \in Event :
    /\ Drained
    /\ CanSend(queue)
    /\ \A s \in Reaction(e) : sets_since[s] + InFlight(s) < MaxSignals
    /\ queue' = Sent(queue, e)
    /\ UNCHANGED << sig, orch_vars, task_vars, fabric_vars >>

\* The orchestrator starts
SigStart ==
  /\ Bootstrap
  /\ sets_since' = [sets_since EXCEPT !["NETWORK_UPDATE_SIGNAL"] = @ + 1]
  /\ wakes_since' = [wakes_since EXCEPT !["NETWORK_UPDATE_SIGNAL"] = 0]
  /\ UNCHANGED << queue, task_vars, published, received_by, pending, last_dispatched >>

\* The orchestrator receives and handles the oldest event
SigDispatch ==
  /\ Dispatch
  /\ sets_since' = [s \in SignalName |->
                      IF s \in Reaction(Head(queue))
                      THEN sets_since[s] + 1 ELSE sets_since[s]]
  /\ wakes_since' = [s \in SignalName |->
                       IF s \in Reaction(Head(queue)) THEN 0 ELSE wakes_since[s]]
  /\ last_dispatched' = Head(queue)
  /\ UNCHANGED << task_vars, published, received_by, pending >>

\* The task waiting on a signal observes it: wait() returns
SigObserve ==
  \E s \in OrchSignal :
    /\ sig[s]
    /\ wakes_since[s] < MaxWakes
    /\ sig' = Taken(sig, s)
    /\ sets_since' = [sets_since EXCEPT ![s] = 0]
    /\ wakes_since' = [wakes_since EXCEPT ![s] = @ + 1]
    /\ UNCHANGED << queue, orch_vars, task_vars, published, received_by, pending,
                    last_dispatched >>

NextSignal == SigSend \/ SigStart \/ SigDispatch \/ SigObserve

SpecSignal == Init /\ [][NextSignal]_vars


\* ------------------------------------------------------------------ properties

\* The events of producer p in a sequence of events, in their order
OnlyOf(q, p) == SelectSeq(q, LAMBDA e : ProducerOf(e) = p)

\* The event a producer suspended in send_event still holds
Held(p) == IF pending[p] = "none" THEN << >> ELSE << pending[p] >>

\* C1: whatever the interleaving of the producers' send_event calls, the events of
\* each producer that receive_event has returned, followed by its events in the
\* queue and by the event of its suspended send_event, are exactly the events it
\* published, in publish order: every event is delivered once, none is dropped or
\* overwritten, and a publisher that finds the queue full keeps its event and
\* waits.  The queue never holds more than 10 events.
EventBusDelivers ==
  /\ Len(queue) <= 10
  /\ \A p \in Producer :
       published[p] = received_by[p] \o OnlyOf(queue, p) \o Held(p)

\* C1 witness: all three producers have published, the queue is full, one of them
\* is suspended on it, and the orchestrator has already received an event.
EventBusFullAndSuspended ==
  /\ Len(queue) = 10
  /\ \A p \in Producer : published[p] # << >>
  /\ \E p \in Producer : pending[p] # "none"
  /\ \E p \in Producer : received_by[p] # << >>

\* C2: for each of the five wake signals, a wake is pending exactly when signal()
\* has been called at least once since the last wake, however many times; and no
\* second wake follows a wake unless signal() was called again in between.
SignalCoalesces ==
  \A s \in OrchSignal :
    /\ sig[s] <=> sets_since[s] >= 1
    /\ wakes_since[s] <= 1

\* C2 witness: every signal has either been set twice with no wake in between or
\* been observed and cleared, and both cases are present.
SignalSetTwiceAndObserved ==
  /\ \A s \in OrchSignal : (sig[s] /\ sets_since[s] >= 2) \/ (~sig[s] /\ wakes_since[s] = 1)
  /\ \E s \in OrchSignal : sets_since[s] >= 2
  /\ \E s \in OrchSignal : wakes_since[s] = 1

\* The dispatch table of the orchestrator: the one signal an event sets, if any
TableSignals(e) ==
  CASE e = "Key0Pressed"              -> {"NETWORK_UPDATE_SIGNAL"}
    [] e = "TimerExpired"             -> {"NETWORK_UPDATE_SIGNAL"}
    [] e = "Key1Pressed"              -> {"BATTERY_MEASURE_SIGNAL"}
    [] e = "Key2Pressed"              -> {"LED_BLINK_SIGNAL"}
    [] e = "ImageDownloaded"          -> {"DISPLAY_UPDATE_SIGNAL"}
    [] e = "SchedulerUpdateRequested" -> {"SCHEDULER_INTERRUPT_SIGNAL"}
    [] e = "NetworkConnected"         -> {}
    [] e = "NetworkDisconnected"      -> {}
    [] e = "ImageDownloadFailed"      -> {}

\* C3: every step in which the orchestrator takes an event off the queue sets the
\* signal the dispatch table gives for that event and no other, leaves every other
\* signal as it was, writes no field of the application state and puts no event
\* on the queue; the table covers every Event variant.
OrchestratorFollowsTable ==
  [][ Len(queue') < Len(queue) =>
        /\ Head(queue) \in Event
        /\ sig' = [s \in SignalName |-> sig[s] \/ s \in TableSignals(Head(queue))]
        /\ app' = app
        /\ queue' = Tail(queue) ]_vars

\* C3 witness: all five signals are pending and the event handled last is one that
\* has no reaction.
AllReactionsTaken ==
  /\ \A s \in OrchSignal : sig[s]
  /\ last_dispatched = "ImageDownloadFailed"


\* C4: every TimerExpired the scheduler publishes comes from a wait whose duration
\* equals the next_update_delay_secs stored at the moment of publication: no
\* TimerExpired is published from a wait the stored delay has moved away from.
TimerExpiredHonoursStoredDelay ==
  [][ (sched_pc = "send" /\ sched_pc' = "read") =>
        delay_secs = app.next_update_delay_secs ]_vars

\* C5: the network manager never receives a download into the image buffer while
\* the display handler is drawing into it or rendering it.
ImageBufferNeverSharedInTime ==
  ~ /\ NetWritesImageBuffer
    /\ DisplayUsesImageBuffer
    /\ ImageBufferOf("network_manager") = ImageBufferOf("display_handler")

\* C6: a download that ends with status 200 and a body of another length than
\* 134,400 bytes takes the failure path: ImageDownloadFailed is what the manager
\* publishes next and last_download_success is false.
SizeMismatchTakesFailurePath ==
  (response.transport = "ok" /\ response.status = 200 /\ response.body_len # 134400) =>
    (net_pc = "send_failed" /\ ~app.last_download_success)

\* The delay a response asks for, read off the response: the value of its first
\* header named X-Next-Delay in any case if that is a decimal number, and the
\* compiled-in default of 30 minutes otherwise
ExpectedDelay(r) ==
  LET named == {i \in 1..Len(r.headers) :
                  r.headers[i].name \in {"x-next-delay", "X-Next-Delay", "X-NEXT-DELAY"}}
      first == CHOOSE i \in named : \A j \in named : i <= j
  IN IF named # {} /\ r.headers[first].value \in {<<"1","2","0">>, <<"+","1","2","0">>}
     THEN 120
     ELSE 30 * 60

\* C7: a download that returns a 200 response with its body takes the success
\* branch; the step that takes the success branch sets next_update_delay_secs to
\* the delay of the response (the default without a usable header) and
\* last_download_success to true, changes nothing else of the state and publishes
\* nothing; the manager then publishes ImageDownloaded, and after it
\* SchedulerUpdateRequested exactly when the stored delay differs from the one
\* stored before the critical section.
SuccessBranchUpdatesAndPublishes ==
  [][ /\ (response = NoResponse /\ response'.transport = "ok" /\ response'.status = 200
            /\ response'.body_len = 134400)
         => net_pc' = "send_downloaded"
      /\ (net_pc # "send_downloaded" /\ net_pc' = "send_downloaded")
         => /\ app' = [app EXCEPT !.next_update_delay_secs = ExpectedDelay(response'),
                                  !.last_download_success = TRUE]
            /\ old_delay' = app.next_update_delay_secs
            /\ queue' = queue
      /\ (net_pc = "send_downloaded" /\ net_pc' # "send_downloaded")
         => /\ queue' = Append(queue, "ImageDownloaded")
            /\ app' = app
            /\ net_pc' = IF app.next_update_delay_secs # old_delay
                         THEN "send_scheduler_update" ELSE "leave"
      /\ (net_pc = "send_scheduler_update" /\ net_pc' # "send_scheduler_update")
         => /\ queue' = Append(queue, "SchedulerUpdateRequested")
            /\ app' = app
            /\ net_pc' = "leave"
      /\ (Len(queue') > Len(queue) /\ queue'[Len(queue')] = "SchedulerUpdateRequested")
         => net_pc = "send_scheduler_update" ]_vars

\* C7 witness: a download without the header has put the default back in place of
\* a server-supplied delay, ImageDownloaded is published and
\* SchedulerUpdateRequested is about to be.
DefaultRestoredAndSchedulerNotified ==
  /\ net_pc = "send_scheduler_update"
  /\ response.headers = << >>
  /\ old_delay = 120
  /\ app.next_update_delay_secs = 1800
  /\ app.last_download_success
  /\ queue # << >> /\ queue[Len(queue)] = "ImageDownloaded"

\* How often x occurs in a log
Count(log, x) == Cardinality({i \in 1..Len(log) : log[i] = x})

\* C8: a download that fails in the transport or returns another status than 200
\* takes the failure branch, whose step sets last_download_success to false and
\* changes nothing else; the manager then publishes ImageDownloadFailed and goes
\* on to disconnect.  The stored delay changes only when the success branch is
\* taken, and a cycle downloads at most once: a cycle that has published
\* ImageDownloadFailed has published it once, has made one attempt and has
\* published neither ImageDownloaded nor SchedulerUpdateRequested.
FailureBranchMarksAndPublishesOnce ==
  /\ [][ /\ (response = NoResponse /\ response' # NoResponse
               /\ (response'.transport # "ok" \/ response'.status # 200))
            => /\ net_pc' = "send_failed"
               /\ app' = [app EXCEPT !.last_download_success = FALSE]
               /\ queue' = queue
         /\ (net_pc = "send_failed" /\ net_pc' # "send_failed")
            => /\ queue' = Append(queue, "ImageDownloadFailed")
               /\ app' = app
               /\ net_pc' = "leave"
         /\ (app'.next_update_delay_secs # app.next_update_delay_secs)
            => net_pc' = "send_downloaded" ]_vars
  /\ [] /\ Count(cycle_log, "download") <= 1
        /\ Count(cycle_log, "ImageDownloadFailed") <= 1
        /\ (net_pc = "send_failed" \/ Count(cycle_log, "ImageDownloadFailed") = 1)
           => /\ Count(cycle_log, "download") = 1
              /\ Count(cycle_log, "ImageDownloaded") = 0
              /\ Count(cycle_log, "SchedulerUpdateRequested") = 0
              /\ ~app.last_download_success

\* C8 witness: a cycle whose download failed is about to end; the delay an earlier
\* cycle got from the server is still stored.
FailedCycleKeepsServerDelay ==
  /\ net_pc = "send_disconnected"
  /\ Count(cycle_log, "ImageDownloadFailed") = 1
  /\ ~app.last_download_success
  /\ app.next_update_delay_secs = 120

\* The last n entries of a log
LastOf(log, n) == SubSeq(log, Len(log) - n + 1, Len(log))

\* C9: the manager goes back to waiting for a trigger only in the step that
\* publishes NetworkDisconnected, with wifi_connected false, and only after the
\* cycle has marked the connection, made its download attempt, run the disconnect
\* sequence and cleared wifi_connected, in this order; while it waits for a
\* trigger wifi_connected is false.
CycleDisconnectsBeforeIdle ==
  /\ [][ (cycle_log # << >> /\ net_pc' = "idle") =>
           /\ queue' = Append(queue, "NetworkDisconnected")
           /\ ~app'.wifi_connected
           /\ cycle_log[2] = "mark_connected"
           /\ Count(cycle_log, "download") = 1
           /\ LastOf(cycle_log, 2) = << "leave", "mark_disconnected" >> ]_vars
  /\ [] /\ (net_pc = "idle" => ~app.wifi_connected /\ cycle_log = << >>)
        /\ (Count(cycle_log, "mark_connected") = 1 /\ Count(cycle_log, "mark_disconnected") = 0)
           <=> app.wifi_connected

\* C9 witness: the manager is back at the select after a cycle whose download
\* failed, the cycle before it having succeeded; NetworkDisconnected is published.
IdleAgainAfterFailedCycle ==
  /\ net_pc = "idle"
  /\ queue = << "NetworkDisconnected" >>
  /\ ~app.wifi_connected
  /\ ~app.last_download_success
  /\ app.next_update_delay_secs = 120

\* C10: the poll loop of the disconnect sequence performs at most 51 waits: each
\* wait counts one up, the loop is never entered again after the 51st, and the
\* sequence then ends; the manager then sets wifi_connected to false and publishes
\* NetworkDisconnected, whatever the state of the link and of the configuration.
DisconnectPollIsBounded ==
  /\ [] /\ timeout_counter <= 51
        /\ (net_pc = "poll" => timeout_counter <= 50)
  /\ [][ /\ (net_pc = "poll" /\ net_pc' # "poll") => net_pc' = "power_save"
         /\ (timeout_counter' # timeout_counter /\ net_pc = "poll")
            => timeout_counter' = timeout_counter + 1
         /\ (net_pc = "power_save" /\ net_pc' # "power_save")
            => /\ net_pc' = "send_disconnected"
               /\ app' = [app EXCEPT !.wifi_connected = FALSE]
         /\ (net_pc = "send_disconnected" /\ net_pc' # "send_disconnected")
            => /\ queue' = Append(queue, "NetworkDisconnected")
               /\ net_pc' = "idle" ]_vars

\* C10 witness: the poll loop has ended after its 51st wait with the link and the
\* configuration still up.
PollLoopTimedOut ==
  /\ net_pc = "power_save"
  /\ timeout_counter = 51
  /\ link_up /\ config_up
  /\ app.wifi_connected

\* ------------------------------------------------------------------ C11

\* The pcs of the join loop of network_manager
JoinLoop == {"join", "join_backoff"}

\* C11: the join loop retries without a cap and with the same backoff: after a failed
\* join the manager waits out the backoff and its only way on is another join,
\* however many attempts have failed; while it is in the loop the manager publishes
\* nothing and wifi_connected is false; a join that succeeds leads, once the link
\* and then the address are up, to the step that marks the cycle connected.
JoinRetriesUntilJoined ==
  /\ [](net_pc \in JoinLoop => /\ ~app.wifi_connected
                                /\ cycle_log = << "cycle" >>)
  /\ [][ /\ net_pc = "join_backoff" /\ net_pc' # net_pc => net_pc' = "join"
         /\ net_pc = "join" /\ net_pc' # net_pc =>
              \/ net_pc' = "join_backoff" /\ join_failures' = join_failures + 1
              \/ net_pc' = "wait_link" /\ joined'
         /\ net_pc \in JoinLoop /\ net_pc' # net_pc => queue' = queue /\ app' = app
         /\ net_pc = "wait_link" /\ net_pc' # net_pc => link_up /\ net_pc' = "wait_config"
         /\ net_pc = "wait_config" /\ net_pc' # net_pc =>
              /\ config_up
              /\ app'.wifi_connected
              /\ cycle_log' = << "cycle", "mark_connected" >> ]_vars

\* C11 witness: the cycle is marked connected after MaxJoinFailures failed joins
ConnectedAfterFailedJoins ==
  /\ join_failures = MaxJoinFailures
  /\ net_pc = "send_connected"
  /\ app.wifi_connected

\* ------------------------------------------------------------------ C12

\* C12: the first cycle needs no button or timer event: the orchestrator sets
\* NETWORK_UPDATE_SIGNAL in the step before its first receive and does nothing else
\* in it; the signal stays set while the manager is still initialising, so a manager
\* that reaches its select after the orchestrator has set the signal finds it; and
\* the manager leaves the select and starts a cycle in every behaviour.
BootstrapStartsFirstCycle ==
  /\ [](orch_pc = "recv" /\ net_pc = "init" => sig["NETWORK_UPDATE_SIGNAL"])
  /\ [][orch_pc = "start" /\ orch_pc' = "recv" =>
          /\ sig' = [sig EXCEPT !["NETWORK_UPDATE_SIGNAL"] = TRUE]
          /\ queue' = queue ]_vars
  /\ [][net_pc = "init" /\ net_pc' = "idle" /\ orch_pc = "recv" =>
          running' = "network_manager"]_vars
  /\ <>(net_pc = "join" /\ cycle_log = << "cycle" >>)

\* C12 witness: a cycle has run to its end and the manager is back in its select,
\* with the bootstrap wake as the only wake there has been
FirstCycleRanOnBootstrapAlone ==
  /\ trigger = "bootstrap"
  /\ orch_pc = "recv"
  /\ net_pc = "idle"
  /\ ~sig["NETWORK_UPDATE_SIGNAL"]
  /\ queue = << >>

\* ------------------------------------------------------------------ C13

\* The orchestrator's receive step: the oldest event leaves the queue
Handled(e) == queue # << >> /\ Head(queue) = e /\ queue' = Tail(queue)

\* The scheduler has nothing left to learn: no interrupt pending, no
\* SchedulerUpdateRequested queued, and the manager not between storing a delay and
\* publishing the events of the download
SchedulerUpToDate ==
  /\ ~sig["SCHEDULER_INTERRUPT_SIGNAL"]
  /\ \A i \in 1..Len(queue) : queue[i] # "SchedulerUpdateRequested"
  /\ net_pc \notin {"send_downloaded", "send_scheduler_update"}

\* C13: from KEY0 to the scheduler's new wait.  Handling Key0Pressed wakes the
\* manager; in the cycle so started, a download that succeeds with X-Next-Delay: 120
\* while 1800 is stored stores 120; ImageDownloaded and then
\* SchedulerUpdateRequested are published; handling them wakes the display handler
\* and the scheduler; the scheduler that observes the interrupt reads the delay
\* again, and whenever it waits with nothing left to learn it waits the stored delay.
Key0UpdatesDisplayAndSchedule ==
  /\ [][ /\ Handled("Key0Pressed") => sig'["NETWORK_UPDATE_SIGNAL"]
         /\ ( /\ trigger = "Key0Pressed"
              /\ app.next_update_delay_secs = 1800
              /\ net_pc # "send_downloaded" /\ net_pc' = "send_downloaded"
              /\ ExpectedDelay(response') = 120 ) =>
                 /\ app'.next_update_delay_secs = 120
                 /\ app'.last_download_success
                 /\ delay_changed'
         /\ net_pc = "send_downloaded" /\ net_pc' # net_pc =>
              /\ queue' = Append(queue, "ImageDownloaded")
              /\ delay_changed => net_pc' = "send_scheduler_update"
         /\ net_pc = "send_scheduler_update" /\ net_pc' # net_pc =>
              queue' = Append(queue, "SchedulerUpdateRequested")
         /\ Handled("ImageDownloaded") => sig'["DISPLAY_UPDATE_SIGNAL"]
         /\ Handled("SchedulerUpdateRequested") => sig'["SCHEDULER_INTERRUPT_SIGNAL"]
         /\ sched_pc = "wait" /\ sched_pc' = "read" /\ sig["SCHEDULER_INTERRUPT_SIGNAL"] =>
              ~sig'["SCHEDULER_INTERRUPT_SIGNAL"]
         /\ sched_pc = "read" /\ sched_pc' = "wait" =>
              delay_secs' = app.next_update_delay_secs ]_vars
  /\ [](sched_pc = "wait" /\ SchedulerUpToDate => delay_secs = app.next_update_delay_secs)

\* C13 witness: the cycle that KEY0 woke has replaced the stored delay (1800, the
\* only other delay there is) by the 120 of the server and has published both
\* events, the display handler is at work on the image and the scheduler waits 120 s
Key0CycleReachedScheduler ==
  /\ trigger = "Key0Pressed"
  /\ ~sig["NETWORK_UPDATE_SIGNAL"]
  /\ Count(cycle_log, "ImageDownloaded") = 1
  /\ Count(cycle_log, "SchedulerUpdateRequested") = 1
  /\ app.next_update_delay_secs = 120
  /\ disp_pc # "wait"
  /\ sched_pc = "wait"
  /\ SchedulerUpToDate
  /\ delay_secs = 120

\* ------------------------------------------------------------------ C14

\* C14: wait_battery_ready is a barrier on the first measurement: no caller is
\* released before battery_percent has been written for the first time, and once it
\* has been written every caller still waiting has the signal it needs to return,
\* however many callers there are.
BatteryBarrierReleasesAll ==
  /\ (\E w \in Waiter : waiter_pc[w] = "released") => bat_pc # "initial"
  /\ bat_pc # "initial" =>
       \A w \in Waiter : waiter_pc[w] = "waiting" => sig["BATTERY_READY_SIGNAL"]

\* ------------------------------------------------------------------ C15

\* The readings of the reads that returned Ok, in the order they were taken
SuccessfulSamples(script, oks) ==
  LET idx == SelectSeq([i \in 1..Len(oks) |-> i], LAMBDA i : oks[i])
  IN  [j \in 1..Len(idx) |-> script[idx[j]]]

\* Element floor(k / 2), counted from 0, of the k values of a list in ascending order
MiddleOfSorted(values) ==
  SortSeq(values, LAMBDA x, y : x < y)[(Len(values) \div 2) + 1]

\* The step of battery_monitor that ends a measurement
MeasurementEnds == bat_pc \in {"initial", "measure"} /\ bat_pc' = "race"

\* C15: whatever reads fail, a measurement with at least one successful read uses
\* the middle element of the sorted list of exactly its successful samples.
MedianIsOfSuccessfulSamples ==
  [][MeasurementEnds /\ valid_samples >= 1 =>
       median_adc' = Some(MiddleOfSorted(SuccessfulSamples(adc_in, read_ok)))]_vars

\* ------------------------------------------------------------------ C16

\* C16: a measurement in which every read fails leaves battery_percent as it was;
\* only a measurement with a valid sample overwrites it.
FailedMeasurementKeepsReading ==
  [][MeasurementEnds /\ valid_samples = 0 =>
       app'.battery_percent = app.battery_percent]_vars

\* ------------------------------------------------------------------ C17

\* The values of a list that have at most four values of the list below them and at
\* least five at or below them: its fifth smallest
FifthSmallest(values) ==
  { v \in {values[i] : i \in 1..Len(values)} :
      /\ Cardinality({i \in 1..Len(values) : values[i] < v}) <= 4
      /\ Cardinality({i \in 1..Len(values) : values[i] <= v}) >= 5 }

\* The values of a list that occur once and lie above or below all the others
Outliers(values) ==
  { v \in {values[i] : i \in 1..Len(values)} :
      /\ Cardinality({i \in 1..Len(values) : values[i] = v}) = 1
      /\ \/ \A i \in 1..Len(values) : values[i] <= v
         \/ \A i \in 1..Len(values) : values[i] >= v }

\* C17: when all nine reads succeed the measurement uses the fifth smallest sample,
\* which is never a single outlier, and for 10, 50, 12, 11, 9, 200, 13, 10, 11 it
\* uses 11.
NineSamplesGiveFifthSmallest ==
  [][ ( /\ MeasurementEnds
        /\ \A i \in 1..SAMPLE_COUNT : read_ok[i] ) =>
          /\ median_adc'.some
          /\ FifthSmallest(adc_in) = {median_adc'.val}
          /\ median_adc'.val \notin Outliers(adc_in)
          /\ adc_in = << 10, 50, 12, 11, 9, 200, 13, 10, 11 >> => median_adc'.val = 11 ]_vars

\* C17 witness: the measurement of the burst with the outliers 9 and 200 has ended
\* with all nine reads successful, and 11 was used
BurstWithOutliersMeasured ==
  /\ bat_pc = "race"
  /\ adc_in = << 10, 50, 12, 11, 9, 200, 13, 10, 11 >>
  /\ read_ok = [i \in 1..SAMPLE_COUNT |-> TRUE]
  /\ Outliers(adc_in) = {9, 200}
  /\ median_adc = Some(11)

\* ------------------------------------------------------------------ C18

\* The battery voltage of a raw reading, reading * 3.3 / 4096 * 3.2, as a whole
\* number of 1/409600 V, and a voltage in volts times 100 in the same unit
RawVoltage(reading) == reading * 1056

Volts100(v) == v * ADC_FULL_SCALE

KeyEvents == {KeyEvent(k) : k \in Key}

\* C19: one event per verified press, of the key's kind, and not before the key is
\* released: the handler waits for the release only on a key it found low when the
\* debounce timer ended, and while it waits the key is low; it comes to publish only
\* by the rising edge of that key; and an event of a key is queued only by the step
\* that leaves the publishing for the next race, which queues the one event of the
\* key released.
OneEventPerPressAfterRelease ==
  /\ [](btn_pc = "release" => keys[button] = "low")
  /\ [][ /\ btn_pc # "release" /\ btn_pc' = "release" =>
              btn_pc = "debounce" /\ keys[button] = "low" /\ button' = button
         /\ btn_pc # "send" /\ btn_pc' = "send" =>
              /\ btn_pc = "release"
              /\ keys[button] = "low" /\ keys'[button] = "high"
              /\ button' = button
         /\ btn_pc = "send" /\ btn_pc' # "send" =>
              /\ btn_pc' = "race"
              /\ queue' = Append(queue, KeyEvent(button))
         /\ ( /\ Len(queue') > Len(queue)
              /\ queue'[Len(queue')] \in KeyEvents ) =>
                 /\ btn_pc = "send" /\ btn_pc' = "race"
                 /\ queue' = Append(queue, KeyEvent(button))
                 /\ keys[button] = "high" ]_vars

\* C19 witness: KEY2 has been pressed once, held through the debounce window and
\* released, and its one event is queued
Key2PressPublished ==
  /\ presses = 1
  /\ button = 2
  /\ btn_pc = "race"
  /\ keys = [k \in Key |-> "high"]
  /\ queue = << "Key2Pressed" >>

\* ------------------------------------------------------------------ C20

\* C20: a key is taken as pressed only if it stayed low through the whole 50 ms
\* window: the handler does not go on to wait for the release, or to publish, when
\* the key rose during the window, whether or not it is low again when the window
\* ends.
DebounceNeedsStableLow == btn_pc \in {"release", "send"} => ~bounced


\* ------------------------------------------------------------------ C21

Blinking == {"blink_on", "blink_off"}

\* The network manager's own events
NetworkEvents ==
  {"NetworkConnected", "ImageDownloaded", "ImageDownloadFailed",
   "SchedulerUpdateRequested", "NetworkDisconnected"}

\* The step appends no event of the network manager to the queue
NoNetworkEventPublished ==
  \/ queue' = queue
  \/ queue # << >> /\ queue' = Tail(queue)
  \/ /\ Len(queue') = Len(queue) + 1
     /\ queue'[Len(queue')] \notin NetworkEvents

\* C22: the frame of the blink wake: from the step in which the manager takes
\* LED_BLINK_SIGNAL until it waits at the select again it stays in blink_led, does
\* not join or leave the network, publishes no event and changes no field of the
\* application state (nor what it keeps of its update cycle).
BlinkLeavesCycleAlone ==
  [][ (net_pc \in Blinking \/ (net_pc = "idle" /\ net_pc' = "blink_on"))
      => /\ net_pc' \in Blinking \cup {"idle"}
         /\ net_pc' = "idle" => net_pc = "blink_off" /\ blink_i + 1 = BLINK_COUNT
         /\ joined' = joined
         /\ app' = app
         /\ NoNetworkEventPublished
         /\ UNCHANGED << timeout_counter, response, old_delay, delay_changed,
                         cycle_log >> ]_vars

\* The last iteration of a blink that was served after an update cycle which stored
\* a delay of 120 s: the application state is as the cycle left it.
BlinkedAfterCycle ==
  /\ net_pc = "blink_off"
  /\ blink_i = BLINK_COUNT - 1
  /\ app.last_download_success
  /\ app.next_update_delay_secs = 120
  /\ ~app.wifi_connected
  /\ ~joined


\* ------------------------------------------------------------------ C23

\* A signal that is pending is cleared by the step of its waiter that serves it, and
\* by no other step
ClearedOnlyWhenServed ==
  /\ sig["NETWORK_UPDATE_SIGNAL"] /\ ~sig'["NETWORK_UPDATE_SIGNAL"]
       => net_pc = "idle" /\ net_pc' = "join"
  /\ sig["LED_BLINK_SIGNAL"] /\ ~sig'["LED_BLINK_SIGNAL"]
       => net_pc = "idle" /\ net_pc' = "blink_on"
  /\ sig["SCHEDULER_INTERRUPT_SIGNAL"] /\ ~sig'["SCHEDULER_INTERRUPT_SIGNAL"]
       => sched_pc = "wait" /\ sched_pc' = "read"
  /\ sig["BATTERY_MEASURE_SIGNAL"] /\ ~sig'["BATTERY_MEASURE_SIGNAL"]
       => bat_pc = "race" /\ bat_pc' = "measure"

\* A task that comes to its select with a signal pending is polled again without
\* any timer or input in between: the pending signal is served at this wait
ServedAtNextWait ==
  /\ net_pc # "idle" /\ net_pc' = "idle"
       /\ (sig'["NETWORK_UPDATE_SIGNAL"] \/ sig'["LED_BLINK_SIGNAL"])
       => running' = "network_manager"
  /\ sched_pc # "wait" /\ sched_pc' = "wait" /\ sig'["SCHEDULER_INTERRUPT_SIGNAL"]
       => running' = "scheduler"
  /\ bat_pc # "race" /\ bat_pc' = "race" /\ sig'["BATTERY_MEASURE_SIGNAL"]
       => running' = "battery_monitor"

\* The step that resolves the network manager's select
ManagerRaceResolved ==
  net_pc = "idle" /\ net_pc' # "idle"
  => /\ app' = app /\ queue' = queue
     /\ IF sig["NETWORK_UPDATE_SIGNAL"]
        THEN /\ net_pc' = "join"
             /\ sig' = Taken(sig, "NETWORK_UPDATE_SIGNAL")
             /\ UNCHANGED << blink_i, led >>
        ELSE /\ sig["LED_BLINK_SIGNAL"]
             /\ net_pc' = "blink_on"
             /\ sig' = Taken(sig, "LED_BLINK_SIGNAL")
             /\ UNCHANGED << cycle_log, joined, timeout_counter >>

\* The step that resolves the scheduler's select: the timer wins and a pending
\* interrupt is left as it is, or the interrupt wins and nothing is published
SchedulerRaceResolved ==
  sched_pc = "wait" /\ sched_pc' # "wait"
  => /\ app' = app /\ queue' = queue /\ delay_secs' = delay_secs
     /\ \/ sched_pc' = "send" /\ sig' = sig
        \/ /\ sched_pc' = "read"
           /\ sig["SCHEDULER_INTERRUPT_SIGNAL"]
           /\ sig' = Taken(sig, "SCHEDULER_INTERRUPT_SIGNAL")

\* The step that resolves the battery monitor's select: a measurement starts either
\* way, and the 300 s timer leaves a pending request as it is
BatteryRaceResolved ==
  bat_pc = "race" /\ bat_pc' # "race"
  => /\ app' = app /\ queue' = queue /\ median_adc' = median_adc
     /\ bat_pc' = "measure"
     /\ \/ sig' = sig
        \/ /\ sig["BATTERY_MEASURE_SIGNAL"]
           /\ sig' = Taken(sig, "BATTERY_MEASURE_SIGNAL")

SchedulerIterationPublishesAtMostOnce ==
  [][ /\ sched_pc = "wait" /\ sched_pc' # "wait"
         => /\ queue' = queue
            /\ \/ sched_pc' = "send" /\ sig' = sig
               \/ sched_pc' = "read" /\ sig["SCHEDULER_INTERRUPT_SIGNAL"]
      /\ sched_pc = "send" /\ sched_pc' # "send"
         => /\ queue' = Append(queue, "TimerExpired")
            /\ sched_pc' = "read"
      /\ sched_pc = "read" /\ sched_pc' # "read"
         => /\ sched_pc' = "wait"
            /\ delay_secs' = app.next_update_delay_secs
            /\ queue' = queue
      /\ sched_pc' = sched_pc => delay_secs' = delay_secs
      /\ (Len(queue') = Len(queue) + 1 /\ queue'[Len(queue')] = "TimerExpired")
         => sched_pc = "send" /\ sched_pc' = "read" ]_vars

\* The timer has won, TimerExpired is in the queue, and the scheduler has read the
\* delay a download stored meanwhile and waits for it.
NextWaitAfterTimerExpired ==
  /\ sched_pc = "wait"
  /\ queue = << "TimerExpired" >>
  /\ delay_secs = 120
  /\ app.next_update_delay_secs = 120


\* ------------------------------------------------------------------ C25

\* Where the manager is between the block that sets wifi_connected and the block
\* that clears it
MarkedConnected ==
  { "send_connected", "request", "downloading", "send_downloaded",
    "send_scheduler_update", "send_failed", "leave", "poll", "power_save" }

\* The step appends e to the queue
Appended(e) == Len(queue') = Len(queue) + 1 /\ queue'[Len(queue')] = e

\* C25: wifi_connected is true exactly while the manager is between mark-connected
\* and mark-disconnected, so it is false while the manager initialises, waits at
\* the select, blinks, joins and waits for the link and the address.  It is true
\* when NetworkConnected is published and false when NetworkDisconnected is
\* published, and the two are published in turn, NetworkConnected first.
WifiConnectedTracksCycle ==
  /\ [](app.wifi_connected <=> net_pc \in MarkedConnected)
  /\ [][ /\ Appended("NetworkConnected")
            => /\ net_pc = "send_connected" /\ net_pc' = "request"
               /\ app.wifi_connected /\ app'.wifi_connected
               /\ Count(cycle_log, "NetworkConnected") = 0
               /\ Count(cycle_log, "mark_connected") = 1
         /\ Appended("NetworkDisconnected")
            => /\ net_pc = "send_disconnected" /\ net_pc' = "idle"
               /\ ~app.wifi_connected /\ ~app'.wifi_connected
               /\ Count(cycle_log, "NetworkConnected") = 1
               /\ LastOf(cycle_log, 1) = << "mark_disconnected" >>
               /\ cycle_log' = << >>
         /\ net_pc = "send_connected" /\ net_pc' # net_pc
            => Appended("NetworkConnected")
         /\ net_pc = "send_disconnected" /\ net_pc' # net_pc
            => Appended("NetworkDisconnected")
         /\ (cycle_log' # cycle_log /\ ~Appended("NetworkDisconnected"))
            => \/ cycle_log = << >> /\ cycle_log' = << "cycle" >>
               \/ /\ Len(cycle_log') = Len(cycle_log) + 1
                  /\ SubSeq(cycle_log', 1, Len(cycle_log)) = cycle_log ]_vars

\* A second connection: the manager has published NetworkConnected in a cycle that
\* follows a complete one.
ConnectedAgainAfterDisconnect ==
  /\ net_pc = "request"
  /\ app.wifi_connected
  /\ app.last_download_success
  /\ Count(cycle_log, "NetworkConnected") = 1


\* ------------------------------------------------------------------ C26

\* The events among the entries of a log or of the queue that the network manager
\* publishes, in their order
NetworkEventsOf(log) == SelectSeq(log, LAMBDA x : x \in NetworkEvents)

\* What a cycle has published before its NetworkDisconnected
CycleSoFar ==
  { << >>,
    << "NetworkConnected" >>,
    << "NetworkConnected", "ImageDownloaded" >>,
    << "NetworkConnected", "ImageDownloadFailed" >>,
    << "NetworkConnected", "ImageDownloaded", "SchedulerUpdateRequested" >> }

\* What a cycle has published when it publishes NetworkDisconnected
CycleBeforeDisconnected ==
  { << "NetworkConnected", "ImageDownloaded" >>,
    << "NetworkConnected", "ImageDownloadFailed" >>,
    << "NetworkConnected", "ImageDownloaded", "SchedulerUpdateRequested" >> }

\* The event that may follow e in the manager's stream of events
FollowsInCycle(e) ==
  CASE e = "NetworkConnected"         -> {"ImageDownloaded", "ImageDownloadFailed"}
    [] e = "ImageDownloaded"          -> {"SchedulerUpdateRequested", "NetworkDisconnected"}
    [] e = "ImageDownloadFailed"      -> {"NetworkDisconnected"}
    [] e = "SchedulerUpdateRequested" -> {"NetworkDisconnected"}
    [] e = "NetworkDisconnected"      -> {"NetworkConnected"}

\* The manager's events that wait in the queue are the last ones it published, in the
\* order of the cycle, those of an earlier cycle before those of a later one
QueueInCycleOrder ==
  LET waiting == NetworkEventsOf(queue)
      done    == NetworkEventsOf(cycle_log)
  IN  /\ \A i \in 1..(Len(waiting) - 1) : waiting[i + 1] \in FollowsInCycle(waiting[i])
      /\ waiting # << >>
         => IF done = << >> THEN waiting[Len(waiting)] = "NetworkDisconnected"
            ELSE waiting[Len(waiting)] = done[Len(done)]

\* C26: an update cycle publishes NetworkConnected, then exactly one of
\* ImageDownloaded and ImageDownloadFailed, then SchedulerUpdateRequested at most
\* once and only after ImageDownloaded, then NetworkDisconnected.  The queue hands
\* the events to the orchestrator in that order, oldest first, so those of one
\* cycle come before any of the next.
CycleEventsInOrder ==
  /\ [](NetworkEventsOf(cycle_log) \in CycleSoFar /\ QueueInCycleOrder)
  /\ [][ /\ \A e \in NetworkEvents \ {"NetworkDisconnected"} :
              Appended(e) <=> cycle_log' = Append(cycle_log, e)
         /\ Appended("NetworkDisconnected")
              => /\ NetworkEventsOf(cycle_log) \in CycleBeforeDisconnected
                 /\ cycle_log' = << >>
         /\ (cycle_log' = << >> /\ cycle_log # << >>) => Appended("NetworkDisconnected")
         /\ \/ queue' = queue
            \/ queue # << >> /\ queue' = Tail(queue)
            \/ \E e \in Event : queue' = Append(queue, e) ]_vars

\* ImageDownloaded and SchedulerUpdateRequested of one cycle wait in the queue, in
\* this order.
DownloadedThenSchedulerUpdateQueued ==
  /\ queue = << "ImageDownloaded", "SchedulerUpdateRequested" >>
  /\ NetworkEventsOf(cycle_log) =
       << "NetworkConnected", "ImageDownloaded", "SchedulerUpdateRequested" >>


\* ------------------------------------------------------------------ C27

\* The display handler leaves its wait and starts a render
RenderStarts == disp_pc = "wait" /\ disp_pc' = "init"

\* C27: a render starts only on a wake of DISPLAY_UPDATE_SIGNAL, which it takes; the
\* signal is set only by the orchestrator's dispatch of ImageDownloaded and cleared
\* only by the start of a render; ImageDownloaded enters the queue only by the
\* manager's step after a download of this cycle that returned Ok.  So each render
\* has an ImageDownloaded of its own before it, and renders never outnumber the
\* ImageDownloaded events published.  The dispatch of ImageDownloadFailed leaves the
\* display's signal as it is.
RenderOnlyAfterImageDownloaded ==
  [][ /\ RenderStarts
         => sig["DISPLAY_UPDATE_SIGNAL"] /\ ~sig'["DISPLAY_UPDATE_SIGNAL"]
      /\ (sig["DISPLAY_UPDATE_SIGNAL"] /\ ~sig'["DISPLAY_UPDATE_SIGNAL"])
         => RenderStarts
      /\ (~sig["DISPLAY_UPDATE_SIGNAL"] /\ sig'["DISPLAY_UPDATE_SIGNAL"])
         => Handled("ImageDownloaded")
      /\ Appended("ImageDownloaded")
         => /\ net_pc = "send_downloaded"
            /\ Count(cycle_log, "download") = 1
            /\ Count(cycle_log, "ImageDownloaded") = 0
            /\ download_image(response).ok
      /\ Handled("ImageDownloadFailed")
         => sig'["DISPLAY_UPDATE_SIGNAL"] = sig["DISPLAY_UPDATE_SIGNAL"]
      /\ net_pc' = "send_failed" /\ net_pc # "send_failed"
         => ~download_image(response').ok ]_vars

\* A render has started after a successful download, and the wake is used up.
RenderStartedAfterDownload ==
  /\ disp_pc = "init"
  /\ ~sig["DISPLAY_UPDATE_SIGNAL"]
  /\ app.last_download_success


\* ------------------------------------------------------------------ C28

\* The events that ask for an update cycle
UpdateTriggers == {"Key0Pressed", "TimerExpired"}

\* The manager takes NETWORK_UPDATE_SIGNAL and starts a cycle
CycleStarts == net_pc = "idle" /\ net_pc' = "join"

\* C28: update triggers coalesce and are not lost.  A wake is pending exactly when
\* at least one trigger has been dispatched since the manager last took
\* NETWORK_UPDATE_SIGNAL; each dispatch of Key0Pressed or TimerExpired, the first as
\* any later one, leaves the one wake pending; only the start of a cycle clears it,
\* and that step takes the wake of all the triggers counted, so that n triggers
\* dispatched while a cycle runs start one cycle after it; and the manager that
\* ends a cycle with the wake pending is polled again at once.
TriggersCoalesceIntoOneCycle ==
  /\ [](sig["NETWORK_UPDATE_SIGNAL"] <=> triggers_waiting > 0)
  /\ [][ /\ \A e \in UpdateTriggers :
              Handled(e) => /\ sig'["NETWORK_UPDATE_SIGNAL"]
                            /\ triggers_waiting' = Counted(triggers_waiting)
                            /\ net_pc' = net_pc
         /\ (sig["NETWORK_UPDATE_SIGNAL"] /\ ~sig'["NETWORK_UPDATE_SIGNAL"])
              => CycleStarts
         /\ CycleStarts
              => /\ sig["NETWORK_UPDATE_SIGNAL"] /\ ~sig'["NETWORK_UPDATE_SIGNAL"]
                 /\ triggers_waiting' = 0
         /\ (CycleRunning /\ net_pc' = "idle" /\ sig'["NETWORK_UPDATE_SIGNAL"])
              => running' = "network_manager"
         /\ (net_pc = "idle" /\ sig["NETWORK_UPDATE_SIGNAL"] /\ net_pc' # net_pc)
              => CycleStarts ]_vars

\* Two triggers have been dispatched while a cycle is running, and one wake is
\* pending for them.
TwoTriggersDuringCycle ==
  /\ CycleRunning
  /\ triggers_waiting >= 2
  /\ sig["NETWORK_UPDATE_SIGNAL"]


\* ------------------------------------------------------------------ C29

\* C29: after the startup measurement each end of the battery monitor's select,
\* by the timer or by the request signal, starts one measurement of nine reads that
\* ends in one write of battery_percent, and battery_percent is written by no other
\* step.  The dispatch of Key1Pressed leaves a request pending; a request is taken
\* only by the select, also one made while a measurement is in progress, and then
\* it is taken in the end and the measurement it starts ends in its write.
BatteryMeasuredOncePerWake ==
  /\ [][ /\ bat_pc = "race" /\ bat_pc' # bat_pc
            => /\ bat_pc' = "measure"
               /\ read_ok' = << >> /\ valid_samples' = 0
               /\ app' = app
         /\ bat_pc = "measure" /\ bat_pc' = bat_pc
            => \/ read_ok' = read_ok
               \/ Len(read_ok') = Len(read_ok) + 1 /\ Len(read_ok') <= SAMPLE_COUNT
         /\ bat_pc = "measure" /\ bat_pc' # bat_pc
            => /\ bat_pc' = "race"
               /\ Len(read_ok) = SAMPLE_COUNT
               /\ app'.battery_percent = MeasuredPercentage(samples, valid_samples)
         /\ app' # app => bat_pc \in {"initial", "measure"} /\ bat_pc' = "race"
         /\ Handled("Key1Pressed") => sig'["BATTERY_MEASURE_SIGNAL"]
         /\ (sig["BATTERY_MEASURE_SIGNAL"] /\ ~sig'["BATTERY_MEASURE_SIGNAL"])
            => bat_pc = "race" /\ bat_pc' = "measure" ]_vars
  /\ (sig["BATTERY_MEASURE_SIGNAL"] ~> ~sig["BATTERY_MEASURE_SIGNAL"])
  /\ (bat_pc = "measure" ~> bat_pc = "race")

\* Key1Pressed has been dispatched while a measurement is in progress: the request
\* is pending, some of the nine reads are done.
RequestDuringMeasurement ==
  /\ bat_pc = "measure"
  /\ Len(read_ok) \in 1..(SAMPLE_COUNT - 1)
  /\ sig["BATTERY_MEASURE_SIGNAL"]


\* ------------------------------------------------------------------ C30

\* C30: when the 50 ms debounce wait ends with the input high, no event is produced
\* and the watcher is back at the select3 of the falling edges; at the select3 a
\* falling edge of any of the three inputs is taken, and a key event is published
\* only for the input the watcher has taken and found low, after its release.  So
\* the next verified press of any input is reported after a discarded edge as after
\* a reported one.
SpuriousEdgeDiscarded ==
  [][ /\ btn_pc = "debounce" /\ btn_pc' # btn_pc
         => /\ keys' = keys /\ queue' = queue /\ button' = button
            /\ btn_pc' = IF keys[button] = "high" THEN "race" ELSE "release"
      /\ \A k \in Key :
           (btn_pc = "race" /\ keys[k] = "high" /\ keys'[k] = "low")
           => btn_pc' = "debounce" /\ button' = k
      /\ btn_pc = "race" /\ btn_pc' # btn_pc
         => \E k \in Key : keys[k] = "high" /\ keys'[k] = "low"
      /\ \A k \in Key :
           Appended(KeyEvent(k))
           => btn_pc = "send" /\ btn_pc' = "race" /\ button = k ]_vars

\* The one falling edge so far was taken and discarded: nothing has been published
\* or dispatched, every input is high and the watcher is at the select3 again.
EdgeDiscardedAndWatching ==
  /\ btn_pc = "race"
  /\ presses = 1
  /\ \A k \in Key : keys[k] = "high"
  /\ queue = << >>
  /\ orch_pc = "recv"
  /\ trigger = "bootstrap"
  /\ ~sig["BATTERY_MEASURE_SIGNAL"]
  /\ ~sig["LED_BLINK_SIGNAL"]

\* ------------------------------------------------------------------ C31

\* A change of the stored delay is still on its way to the scheduler: the manager is
\* between the critical section that changed it and the end of its
\* send_event(SchedulerUpdateRequested), or the event is queued, or the orchestrator
\* has set SCHEDULER_INTERRUPT_SIGNAL and the scheduler has not taken it
ChangeNotificationOwed ==
  \/ net_pc \in {"send_downloaded", "send_scheduler_update"} /\ delay_changed
  \/ \E i \in 1..Len(queue) : queue[i] = "SchedulerUpdateRequested"
  \/ sig["SCHEDULER_INTERRUPT_SIGNAL"]

\* The scheduler is in its select and waits another delay than the stored one
WaitsStaleDelay == sched_pc = "wait" /\ delay_secs # app.next_update_delay_secs

\* C31: a scheduler in its timed wait waits the stored next_update_delay_secs unless
\* a change notification is still on its way (the manager has changed the delay and
\* not yet published SchedulerUpdateRequested, or the event is queued, or the
\* interrupt signal is pending); a wait becomes stale only by the manager's
\* critical section that changes the delay, and a notification on its way ends
\* only with the scheduler out of the wait or with the next stage of the
\* notification in place.
StaleWaitHasNotificationOwed ==
  /\ [](WaitsStaleDelay => ChangeNotificationOwed)
  /\ [][ /\ ~WaitsStaleDelay /\ WaitsStaleDelay' =>
              /\ sched_pc = "wait"
              /\ app'.next_update_delay_secs # app.next_update_delay_secs
              /\ net_pc' = "send_downloaded" /\ delay_changed'
         /\ ~( /\ sched_pc = "wait" /\ sched_pc' = "wait"
               /\ ChangeNotificationOwed /\ ~ChangeNotificationOwed' ) ]_vars

\* C31 witness: after an earlier cycle whose 120 s the scheduler has picked up, a cycle
\* has restored the default; the scheduler still waits 120 s, and all that is
\* owed to it is the SchedulerUpdateRequested in the queue
StaleWaitWithEventQueued ==
  /\ sched_pc = "wait"
  /\ delay_secs = 120
  /\ app.next_update_delay_secs = UPDATE_INTERVAL_MINUTES * 60
  /\ ~sig["SCHEDULER_INTERRUPT_SIGNAL"]
  /\ net_pc \notin {"send_downloaded", "send_scheduler_update"}
  /\ \E i \in 1..Len(queue) : queue[i] = "SchedulerUpdateRequested"

\* ------------------------------------------------------------------ C32

\* The producers suspended in send_event
Suspended == {p \in Producer : pending[p] # "none"}

\* C32: no deadlock on the event queue.  The orchestrator that has reached
\* receive_event is suspended nowhere else: each event it handles leaves it at
\* receive_event again.  A producer suspended on the full queue keeps its event
\* while it is suspended, its send_event ends only with this event appended to the
\* queue, and it does end, however many producers are suspended with it: at every
\* moment there is a later one at which the producer is not suspended.
SuspendedPublisherIsResumed ==
  /\ [][ /\ orch_pc = "recv" => orch_pc' = "recv"
         /\ \A p \in Producer :
              pending[p] # "none" /\ pending'[p] # pending[p] =>
                 /\ pending'[p] = "none"
                 /\ queue' = Append(queue, pending[p]) ]_vars
  /\ \A p \in Producer : []<>(pending[p] = "none")

\* C32 witness: the queue is full and the three producers are suspended in send_event
\* at the same time
EveryProducerSuspended ==
  /\ Len(queue) = EVENT_QUEUE_SIZE
  /\ Suspended = Producer

\* ------------------------------------------------------------------ C33

\* The manager leaves the select by its blink branch: blink_led starts
BlinkStarts == net_pc \notin Blinking /\ net_pc' \in Blinking

\* The running update cycle ends
CycleEnds == CycleRunning /\ ~CycleRunning'

\* C33: a blink wake that arrives during an update cycle.  Handling Key2Pressed
\* leaves LED_BLINK_SIGNAL pending, and nothing else sets it; while the cycle runs
\* the wake stays pending, whether one Key2Pressed was dispatched during the cycle
\* or more, and no step of the cycle starts blink_led; the cycle ends only by the
\* step that publishes NetworkDisconnected and returns to the select, where the
\* manager runs on if the wake is pending; the wake is taken only by the step from
\* the select that starts blink_led, with no cycle in progress, and that step
\* leaves no wake pending: one pattern of BLINK_COUNT iterations for all the
\* Key2Pressed of the cycle.
BlinkWaitsForCycleEnd ==
  /\ [](CycleRunning /\ key2_in_cycle >= 1 => sig["LED_BLINK_SIGNAL"])
  /\ [](blink_i < BLINK_COUNT)
  /\ [][ /\ Handled("Key2Pressed") => sig'["LED_BLINK_SIGNAL"]
         /\ ~sig["LED_BLINK_SIGNAL"] /\ sig'["LED_BLINK_SIGNAL"] => Handled("Key2Pressed")
         /\ sig["LED_BLINK_SIGNAL"] /\ ~sig'["LED_BLINK_SIGNAL"] => BlinkStarts
         /\ CycleRunning => net_pc' \notin Blinking
         /\ CycleEnds =>
              /\ net_pc' = "idle"
              /\ queue' = Append(queue, "NetworkDisconnected")
              /\ sig["LED_BLINK_SIGNAL"] => running' = "network_manager"
         /\ BlinkStarts =>
              /\ net_pc = "idle" /\ cycle_log = << >>
              /\ sig["LED_BLINK_SIGNAL"] /\ ~sig'["LED_BLINK_SIGNAL"]
              /\ net_pc' = "blink_on" /\ blink_i' = 0 ]_vars

\* C33 witness: two Key2Pressed were dispatched while the update cycle ran; the cycle
\* has ended, the manager is in the last iteration of the one pattern they asked
\* for, no wake is pending and no Key2Pressed is left to come
OneBlinkForTwoKey2InCycle ==
  /\ key2_in_cycle >= 2
  /\ net_pc = "blink_off"
  /\ blink_i = BLINK_COUNT - 1
  /\ ~sig["LED_BLINK_SIGNAL"]
  /\ btn_pc = "race"
  /\ \A i \in 1..Len(queue) : queue[i] # "Key2Pressed"

\* ------------------------------------------------------------------ C34

\* The step changes field f of the application state
Written(f) == app'[f] # app[f]

\* A step of the scheduler, the display handler, the button handler with its inputs,
\* or the orchestrator
NonWriterStep ==
  \/ sched_pc' # sched_pc
  \/ disp_pc' # disp_pc
  \/ btn_pc' # btn_pc \/ keys' # keys
  \/ orch_pc' # orch_pc
  \/ queue # << >> /\ queue' = Tail(queue)

\* C34: one writer per field.  battery_percent is changed only by the step of the
\* battery monitor that ends a measurement; wifi_connected only by the manager's
\* steps after wait_config_up and after disconnect_wifi; last_download_success
\* only by the manager's step that handles the result of download_image, and
\* next_update_delay_secs only by that step on the success path, which sets it to
\* the delay of this download's response or to the default; neither writer
\* changes a field of the other, and a step of the scheduler, the display handler,
\* the button handler or the orchestrator changes no field.  The delay starts as
\* the compiled-in default, so it is always the default or the delay of the last
\* download that succeeded.
EachFieldHasOneWriter ==
  /\ app.next_update_delay_secs = UPDATE_INTERVAL_MINUTES * 60
  /\ [](net_pc \in {"send_downloaded", "send_scheduler_update"} =>
          app.next_update_delay_secs = ExpectedDelay(response))
  /\ [][ /\ Written("battery_percent") =>
              bat_pc \in {"initial", "measure"} /\ bat_pc' = "race"
         /\ Written("wifi_connected") =>
              \/ net_pc = "wait_config" /\ net_pc' = "send_connected"
              \/ net_pc = "power_save" /\ net_pc' = "send_disconnected"
         /\ Written("last_download_success") =>
              /\ net_pc \in {"request", "downloading"}
              /\ net_pc' \in {"send_downloaded", "send_failed"}
         /\ Written("next_update_delay_secs") =>
              /\ net_pc \in {"request", "downloading"}
              /\ net_pc' = "send_downloaded"
              /\ download_image(response').ok
         /\ net_pc \in {"request", "downloading"} /\ net_pc' = "send_downloaded" =>
              app'.next_update_delay_secs = ExpectedDelay(response')
         /\ net_pc' # net_pc => ~Written("battery_percent")
         /\ bat_pc' # bat_pc \/ read_ok' # read_ok =>
              /\ ~Written("wifi_connected")
              /\ ~Written("last_download_success")
              /\ ~Written("next_update_delay_secs")
         /\ NonWriterStep => app' = app ]_vars

\* C34 witness: both writers have written.  The battery monitor has stored its first
\* measurement; the cycle of the bootstrap has stored the 120 s of its download and
\* has cleared wifi_connected again; the display handler, which read
\* battery_percent, is at work on the image.
BothWritersHaveWritten ==
  /\ app.battery_percent > 0
  /\ app.next_update_delay_secs = 120
  /\ app.last_download_success
  /\ ~app.wifi_connected
  /\ net_pc = "idle"
  /\ disp_pc # "wait"

\* ------------------------------------------------------------------ C35

\* The running update cycle is completed: the manager returns to its select
CycleCompletes == CycleRunning /\ net_pc' = "idle"

\* C35: last_download_success is false when the firmware starts and changes only in
\* the step that handles the result of download_image, so it is false until the
\* first download attempt has completed.  In a cycle that has published
\* ImageDownloaded it is true and in one that has published ImageDownloadFailed it
\* is false; the step that completes a cycle finds it true exactly when the cycle
\* published ImageDownloaded and false exactly when it published
\* ImageDownloadFailed, and no step taken while the manager is at its select or
\* blinks changes it: at idle it tells what the cycle completed last published.
LastDownloadSuccessTellsLastCycle ==
  /\ ~app.last_download_success
  /\ [] /\ Count(cycle_log, "download") = 0 /\ net_pc \in {"init", "join", "join_backoff",
             "wait_link", "wait_config", "send_connected", "request", "downloading"}
          => Count(cycle_log, "ImageDownloaded") + Count(cycle_log, "ImageDownloadFailed") = 0
        /\ Count(cycle_log, "ImageDownloaded") >= 1 => app.last_download_success
        /\ Count(cycle_log, "ImageDownloadFailed") >= 1 => ~app.last_download_success
  /\ [][ /\ Written("last_download_success") =>
              /\ Count(cycle_log, "download") = 0
              /\ cycle_log' = Append(cycle_log, "download")
         /\ CycleCompletes =>
              /\ Count(cycle_log, "ImageDownloaded") + Count(cycle_log, "ImageDownloadFailed") = 1
              /\ app.last_download_success <=> Count(cycle_log, "ImageDownloaded") = 1
              /\ app'.last_download_success = app.last_download_success
         /\ ~CycleRunning => app'.last_download_success = app.last_download_success ]_vars

\* C35 witness: the manager waits at its select, everything the last cycle published
\* has been handled, and the flag is false although a delay of 120 s is stored: a
\* cycle that succeeded was followed by the one completed last, whose download
\* failed
IdleWithFlagOfLastCycle ==
  /\ net_pc = "idle"
  /\ queue = << >>
  /\ running = "none"
  /\ ~sig["NETWORK_UPDATE_SIGNAL"]
  /\ ~app.last_download_success
  /\ app.next_update_delay_secs = 120

====
